---------------------------- MODULE Spec2Model ----------------------------
(***************************************************************************)
(* Model of the ISTQB quiz application: the utility functions of          *)
(* src/utils.js (validation, grading) and the inputs they are applied to. *)
(*                                                                         *)
(* JavaScript values are tagged records [t, s, items]:                     *)
(*   t      the kind: "undefined", "null", "string", "number", "array",    *)
(*          "object";                                                      *)
(*   s      the content of a string or number;                             *)
(*   items  the elements of an array, or the entries of an object in       *)
(*          insertion order (Object.entries); an item is                   *)
(*          [t, option, option_text]: for an array element of kind         *)
(*          "object" its option and option_text properties, for an object  *)
(*          entry the key (option) and the string value (option_text).     *)
(* A question object is such a record of kind "object" that carries its   *)
(* properties (question_text, question_option, answer_option,              *)
(* answer_option_text, learning_objective) as further fields.              *)
(* JavaScript indices are 0-based, sequences here are 1-based: the         *)
(* question of index i is questions[i + 1].                                *)
(***************************************************************************)
EXTENDS Integers, Sequences, FiniteSets, TLC

VARIABLES questions, userAnswers, gradePc, gradeResult,
          data, filename, validatePc, validation,
          app,              \* the QuizApp object (this)
          dom,              \* the page: active page, resume prompt, quiz list, inputs
          intervals,        \* the ids of the intervals setInterval has running
          server,           \* the document the server returns for each file
          loadPc,           \* the position of loadQuizzes
          quizFiles,        \* the files loadQuizzes has still to load
          localStorage,     \* the entries of window.localStorage
          storageFailure,   \* how localStorage fails: "none", "quota" or "denied"
          now,              \* Date.now()
          storeCall,        \* the last call of a function of the store
          lastSaved,        \* per quiz, the state and time of the last save that
                            \* was stored and not cleared since
          otherTab,         \* the QuizApp object of a second tab on the same store
          prepareArg,       \* the argument of a call of a function that shuffles
          prepareRandom,    \* the values Math.random() returns during the call
          preparePc,        \* the position of the call
          prepareResult     \* what the call returned

gradeVars == <<questions, userAnswers, gradePc, gradeResult>>

validateVars == <<data, filename, validatePc, validation>>

loadVars == <<server, loadPc, quizFiles>>

storeVars == <<localStorage, storageFailure, now>>

prepareVars == <<prepareArg, prepareRandom, preparePc, prepareResult>>

controllerVars == <<app, dom, intervals, server, loadPc, quizFiles,
                    localStorage, storageFailure, now, storeCall, lastSaved, otherTab>>

vars == <<questions, userAnswers, gradePc, gradeResult,
          data, filename, validatePc, validation,
          app, dom, intervals, server, loadPc, quizFiles,
          localStorage, storageFailure, now, storeCall, lastSaved, otherTab,
          prepareArg, prepareRandom, preparePc, prepareResult>>

-----------------------------------------------------------------------------
(* Bounds of the model. *)

\* number of option letters of a question (a, b, c, ...)
NumKeys == 3

\* longest list of mixed questions that is graded
MaxQuestions == 3

\* longest list of like questions that is graded (total of a large bank)
MaxLongLen == 40

\* longest array handed to validateQuizData
MaxData == 3

-----------------------------------------------------------------------------
(* JavaScript values. *)

Undef == [t |-> "undefined", s |-> "", items |-> <<>>]

Null == [t |-> "null", s |-> "", items |-> <<>>]

Str(x) == [t |-> "string", s |-> x, items |-> <<>>]

Num(x) == [t |-> "number", s |-> x, items |-> <<>>]

Arr(xs) == [t |-> "array", s |-> "", items |-> xs]

Obj(xs) == [t |-> "object", s |-> "", items |-> xs]

\* an array element { option: k, option_text: x }
Opt(k, x) == [t |-> "object", option |-> k, option_text |-> x]

\* an array element that is a number
NumItem == [t |-> "number", option |-> "", option_text |-> ""]

\* an object entry  k: "x"
Pair(k, x) == [t |-> "string", option |-> k, option_text |-> x]

\* a question object with these properties
Question(text, options, answer, explanation, objective) ==
    [t |-> "object", s |-> "", items |-> <<>>,
     question_text      |-> text,
     question_option    |-> options,
     answer_option      |-> answer,
     answer_option_text |-> explanation,
     learning_objective |-> objective]

\* !!v
Truthy(v) ==
    CASE v.t = "undefined" -> FALSE
      [] v.t = "null"      -> FALSE
      [] v.t = "string"    -> v.s # ""
      [] v.t = "number"    -> v.s # "0"
      [] OTHER             -> TRUE

\* typeof v
TypeOf(v) ==
    CASE v.t = "null"  -> "object"
      [] v.t = "array" -> "object"
      [] OTHER         -> v.t

\* Array.isArray(v)
IsArray(v) == v.t = "array"

\* Object.keys(v) of an object
ObjectKeys(v) == [i \in DOMAIN v.items |-> v.items[i].option]

LowerLetters == <<"a", "b", "c", "d", "e", "f">>

UpperLetters == <<"A", "B", "C", "D", "E", "F">>

\* s.toUpperCase()
ToUpperCase(s) ==
    IF \E i \in DOMAIN LowerLetters : LowerLetters[i] = s
    THEN UpperLetters[CHOOSE i \in DOMAIN LowerLetters : LowerLetters[i] = s]
    ELSE s

\* s.toLowerCase()
ToLowerCase(s) ==
    IF \E i \in DOMAIN UpperLetters : UpperLetters[i] = s
    THEN LowerLetters[CHOOSE i \in DOMAIN UpperLetters : UpperLetters[i] = s]
    ELSE s

Range(f) == {f[i] : i \in DOMAIN f}

\* xs.includes(x)
Includes(xs, x) == \E i \in DOMAIN xs : xs[i] = x

-----------------------------------------------------------------------------
(* src/utils.js: multi-answer detection and correct answers. *)

\* isMultiAnswerQuestion that takes one entry for several
isMultiAnswerQuestionFromOneEntry(question) ==
    IF ~Truthy(question.answer_option_text)
    THEN FALSE
    ELSE IF TypeOf(question.answer_option_text) = "object"
         THEN Len(ObjectKeys(question.answer_option_text)) > 0
         ELSE FALSE

isMultiAnswerQuestion(question) ==
    IF ~Truthy(question.answer_option_text)
    THEN FALSE
    ELSE IF TypeOf(question.answer_option_text) = "object"
         THEN Len(ObjectKeys(question.answer_option_text)) > 1
         ELSE FALSE

getCorrectAnswers(question) ==
    IF Truthy(question.answer_option_text)
       /\ TypeOf(question.answer_option_text) = "object"
    THEN [i \in DOMAIN question.answer_option_text.items |->
            ToUpperCase(ObjectKeys(question.answer_option_text)[i])]
    ELSE IF Truthy(question.answer_option)
         THEN <<ToUpperCase(question.answer_option.s)>>
         ELSE <<>>

\* getCorrectAnswers throws: answer_option.toUpperCase is not a function
getCorrectAnswersRaises(question) ==
    /\ ~(Truthy(question.answer_option_text)
         /\ TypeOf(question.answer_option_text) = "object")
    /\ Truthy(question.answer_option)
    /\ question.answer_option.t # "string"

-----------------------------------------------------------------------------
(* src/utils.js: gradeQuiz.  The values of isCorrect are the JavaScript    *)
(* values "true" and "false" and, of  userAnswer && ...  with a falsy      *)
(* answer, that answer ("undefined" with no entry).  Of a per-question     *)
(* result the fields question, correctAnswer, userAnswer, isCorrect,       *)
(* learningObjective and isMultiAnswer are modelled (the two answers as    *)
(* the lists of keys that are joined for display); the texts               *)
(* (correctAnswerText, userAnswerText, explanation, allExplanations) and   *)
(* the rounded percentage of the result are left out.                      *)

\* userAnswers[questionId]
UserAnswerAt(answers, index) ==
    IF index + 1 \in DOMAIN answers THEN answers[index + 1] ELSE Undef

\* the selections of a multi-answer question, upper-cased
UserSelectionsUpper(userAnswer) ==
    LET userSelections ==
            IF IsArray(userAnswer) THEN userAnswer.items
            ELSE IF Truthy(userAnswer) THEN <<userAnswer.s>> ELSE <<>>
    IN  [i \in DOMAIN userSelections |-> ToUpperCase(userSelections[i])]

\* MultiIsCorrect without the comparison of the two lengths
MultiIsCorrectNoLength(correctAnswers, userAnswer) ==
    LET userSelectionsUpper == UserSelectionsUpper(userAnswer)
        correctAnswersUpper ==
            [i \in DOMAIN correctAnswers |-> ToUpperCase(correctAnswers[i])]
    IN  IF \A i \in DOMAIN correctAnswersUpper :
              Includes(userSelectionsUpper, correctAnswersUpper[i])
        THEN "true" ELSE "false"

MultiIsCorrect(correctAnswers, userAnswer) ==
    LET userSelectionsUpper == UserSelectionsUpper(userAnswer)
        correctAnswersUpper ==
            [i \in DOMAIN correctAnswers |-> ToUpperCase(correctAnswers[i])]
    IN  IF /\ Len(correctAnswersUpper) = Len(userSelectionsUpper)
           /\ \A i \in DOMAIN correctAnswersUpper :
                 Includes(userSelectionsUpper, correctAnswersUpper[i])
        THEN "true" ELSE "false"

\* SingleIsCorrect comparing the keys as they are written
SingleIsCorrectCaseSensitive(question, userAnswer) ==
    IF ~Truthy(userAnswer)
    THEN IF userAnswer.t \in {"undefined", "null"} THEN userAnswer.t ELSE userAnswer.s
    ELSE IF userAnswer.s = question.answer_option.s
         THEN "true" ELSE "false"

\* userAnswer && userAnswer.toLowerCase() === correctAnswer.toLowerCase()
SingleIsCorrect(question, userAnswer) ==
    IF ~Truthy(userAnswer)
    THEN IF userAnswer.t \in {"undefined", "null"} THEN userAnswer.t ELSE userAnswer.s
    ELSE IF ToLowerCase(userAnswer.s) = ToLowerCase(question.answer_option.s)
         THEN "true" ELSE "false"

\* the statement of gradeQuiz that throws a TypeError for this question
GradeRaises(question, userAnswer) ==
    \/ getCorrectAnswersRaises(question)
    \/ /\ ~isMultiAnswerQuestion(question)
       /\ Truthy(userAnswer)
       /\ \/ userAnswer.t # "string"
          \/ question.answer_option.t # "string"
    \/ /\ ~isMultiAnswerQuestion(question)
       /\ Truthy(question.answer_option_text)
       /\ TypeOf(question.answer_option_text) = "object"
       /\ question.answer_option.t # "string"

IsTrue(isCorrect) == isCorrect = "true"

\* UpdateStats that files a question without objective under "unknown"
UpdateStatsUnknown(stats, learningObjective, isCorrect) ==
    LET lo == IF Truthy(learningObjective) THEN learningObjective.s ELSE "unknown"
        old == IF lo \in DOMAIN stats
               THEN stats[lo]
               ELSE [total |-> 0, correct |-> 0, incorrect |-> 0]
        new == [total     |-> old.total + 1,
                correct   |-> old.correct + (IF IsTrue(isCorrect) THEN 1 ELSE 0),
                incorrect |-> old.incorrect + (IF IsTrue(isCorrect) THEN 0 ELSE 1)]
    IN  [o \in DOMAIN stats \cup {lo} |-> IF o = lo THEN new ELSE stats[o]]

\* learningObjectiveStats after one question
UpdateStats(stats, learningObjective, isCorrect) ==
    IF ~Truthy(learningObjective)
    THEN stats
    ELSE LET lo == learningObjective.s
             old == IF lo \in DOMAIN stats
                    THEN stats[lo]
                    ELSE [total |-> 0, correct |-> 0, incorrect |-> 0]
             new == [total     |-> old.total + 1,
                     correct   |-> old.correct + (IF IsTrue(isCorrect) THEN 1 ELSE 0),
                     incorrect |-> old.incorrect + (IF IsTrue(isCorrect) THEN 0 ELSE 1)]
         IN  [o \in DOMAIN stats \cup {lo} |-> IF o = lo THEN new ELSE stats[o]]

\* the entry pushed to results for one question
QuestionResult(question, userAnswer, isCorrect) ==
    LET isMultiAnswer == isMultiAnswerQuestion(question)
    IN  [question          |-> question.question_text,
         correctAnswer     |-> IF isMultiAnswer
                               THEN getCorrectAnswers(question)
                               ELSE <<question.answer_option.s>>,
         userAnswer        |-> IF IsArray(userAnswer) /\ Len(userAnswer.items) > 0
                               THEN userAnswer.items
                               ELSE IF Truthy(userAnswer)
                                    THEN <<userAnswer.s>>
                                    ELSE <<"Nessuna risposta">>,
         isCorrect         |-> isCorrect,
         learningObjective |-> question.learning_objective,
         isMultiAnswer     |-> isMultiAnswer]

\* passed: correctCount >= 26
PassThreshold == 26

\* Passed with a strict comparison
PassedStrict(correctCount) == correctCount > PassThreshold

Passed(correctCount) == correctCount >= PassThreshold

\* GradeQuestion that counts every answered question as correct
GradeQuestionCountsAnswered(acc, question, userAnswer) ==
    LET isCorrect == IF isMultiAnswerQuestion(question)
                     THEN MultiIsCorrect(getCorrectAnswers(question), userAnswer)
                     ELSE SingleIsCorrect(question, userAnswer)
    IN  [raised                 |-> FALSE,
         correctCount           |-> acc.correctCount + (IF Truthy(userAnswer) THEN 1 ELSE 0),
         results                |-> Append(acc.results,
                                           QuestionResult(question, userAnswer, isCorrect)),
         learningObjectiveStats |-> UpdateStats(acc.learningObjectiveStats,
                                                question.learning_objective, isCorrect)]

\* the body of questions.forEach for one question
GradeQuestion(acc, question, userAnswer) ==
    LET isCorrect == IF isMultiAnswerQuestion(question)
                     THEN MultiIsCorrect(getCorrectAnswers(question), userAnswer)
                     ELSE SingleIsCorrect(question, userAnswer)
    IN  [raised                 |-> FALSE,
         correctCount           |-> acc.correctCount + (IF IsTrue(isCorrect) THEN 1 ELSE 0),
         results                |-> Append(acc.results,
                                           QuestionResult(question, userAnswer, isCorrect)),
         learningObjectiveStats |-> UpdateStats(acc.learningObjectiveStats,
                                                question.learning_objective, isCorrect)]

RECURSIVE GradeLoop(_, _, _, _)
GradeLoop(qs, answers, index, acc) ==
    IF index >= Len(qs)
    THEN acc
    ELSE IF GradeRaises(qs[index + 1], UserAnswerAt(answers, index))
         THEN [acc EXCEPT !.raised = TRUE]
         ELSE GradeLoop(qs, answers, index + 1,
                        GradeQuestion(acc, qs[index + 1], UserAnswerAt(answers, index)))

\* the value gradeQuiz returns; raised: it threw instead of returning
gradeQuiz(qs, answers) ==
    LET acc == GradeLoop(qs, answers, 0,
                         [raised |-> FALSE, correctCount |-> 0, results |-> <<>>,
                          learningObjectiveStats |-> <<>>])
    IN  IF acc.raised
        THEN [raised |-> TRUE, score |-> 0, total |-> 0, passed |-> FALSE,
              results |-> <<>>, learningObjectiveStats |-> <<>>]
        ELSE [raised |-> FALSE,
              score  |-> acc.correctCount,
              total  |-> Len(qs),
              passed |-> Passed(acc.correctCount),
              results |-> acc.results,
              learningObjectiveStats |-> acc.learningObjectiveStats]

-----------------------------------------------------------------------------
(* src/utils.js: validateQuestion and validateQuizData.  A diagnostic      *)
(* `${filename}: Domanda ${index + 1}: ${msg}` is the record               *)
(* [file, domanda, msg]; the two diagnostics about the whole file have     *)
(* domanda 0.                                                              *)

Diagnostic(index, msg) == [domanda |-> index + 1, msg |-> msg]

validateQuestion(question, index) ==
    IF ~Truthy(question) \/ TypeOf(question) # "object"
    THEN [isValid |-> FALSE,
          errors  |-> <<Diagnostic(index, "Non e un oggetto valido")>>]
    ELSE LET textErrors ==
                 IF \/ ~Truthy(question.question_text)
                    \/ TypeOf(question.question_text) # "string"
                 THEN <<Diagnostic(index, "Manca question_text o non e una stringa")>>
                 ELSE <<>>
             optionErrors ==
                 IF ~Truthy(question.question_option)
                 THEN <<Diagnostic(index, "Manca question_option")>>
                 ELSE IF IsArray(question.question_option)
                      THEN IF Len(question.question_option.items) < 2
                           THEN <<Diagnostic(index, "Deve avere almeno 2 opzioni")>>
                           ELSE <<>>
                      ELSE IF TypeOf(question.question_option) = "object"
                           THEN IF Len(ObjectKeys(question.question_option)) < 2
                                THEN <<Diagnostic(index, "Deve avere almeno 2 opzioni")>>
                                ELSE <<>>
                           ELSE <<Diagnostic(index,
                                     "question_option deve essere un array o un oggetto")>>
             answerErrors ==
                 IF \/ ~Truthy(question.answer_option)
                    \/ TypeOf(question.answer_option) # "string"
                 THEN <<Diagnostic(index, "Manca answer_option o non e una stringa")>>
                 ELSE <<>>
             errors == textErrors \o optionErrors \o answerErrors
         IN  [isValid |-> errors = <<>>, errors |-> errors]

\* `${filename}: ${err}`
Prefixed(file, errs) ==
    [i \in DOMAIN errs |-> [file |-> file, domanda |-> errs[i].domanda, msg |-> errs[i].msg]]

\* data.forEach that returns at the first question that is not valid
RECURSIVE ValidateLoopStopsAtFailure(_, _, _, _)
ValidateLoopStopsAtFailure(items, file, index, acc) ==
    IF index >= Len(items)
    THEN acc
    ELSE LET result == validateQuestion(items[index + 1], index)
         IN  IF result.isValid
             THEN ValidateLoopStopsAtFailure(items, file, index + 1,
                      [acc EXCEPT !.validQuestions = Append(@, items[index + 1])])
             ELSE [acc EXCEPT !.errors = @ \o Prefixed(file, result.errors)]

\* data.forEach((question, index) => ...)
RECURSIVE ValidateLoop(_, _, _, _)
ValidateLoop(items, file, index, acc) ==
    IF index >= Len(items)
    THEN acc
    ELSE LET result == validateQuestion(items[index + 1], index)
         IN  ValidateLoop(items, file, index + 1,
                 IF result.isValid
                 THEN [acc EXCEPT !.validQuestions = Append(@, items[index + 1])]
                 ELSE [acc EXCEPT !.errors = @ \o Prefixed(file, result.errors)])

\* validateQuizData without the early return for an empty array
validateQuizDataNoEmptyCheck(d, file) ==
    IF ~IsArray(d)
    THEN [isValid |-> FALSE, validQuestions |-> <<>>,
          errors |-> <<[file |-> file, domanda |-> 0,
                        msg |-> "Il file deve contenere un array di domande"]>>]
    ELSE LET acc == ValidateLoop(d.items, file, 0,
                                 [validQuestions |-> <<>>, errors |-> <<>>])
         IN  [isValid        |-> Len(acc.validQuestions) > 0,
              validQuestions |-> acc.validQuestions,
              errors         |-> acc.errors]

validateQuizData(d, file) ==
    IF ~IsArray(d)
    THEN [isValid |-> FALSE, validQuestions |-> <<>>,
          errors |-> <<[file |-> file, domanda |-> 0,
                        msg |-> "Il file deve contenere un array di domande"]>>]
    ELSE IF Len(d.items) = 0
         THEN [isValid |-> FALSE, validQuestions |-> <<>>,
               errors |-> <<[file |-> file, domanda |-> 0,
                             msg |-> "L'array delle domande e vuoto"]>>]
         ELSE LET acc == ValidateLoop(d.items, file, 0,
                                      [validQuestions |-> <<>>, errors |-> <<>>])
              IN  [isValid        |-> Len(acc.validQuestions) > 0,
                   validQuestions |-> acc.validQuestions,
                   errors         |-> acc.errors]


-----------------------------------------------------------------------------
(* The questions and answers gradeQuiz is applied to.  The questions are   *)
(* questions the validator accepts, with their options in the array form   *)
(* the application grades (prepareQuestionForDisplay).  The answers to a   *)
(* question are what userAnswers can hold: no entry, one option value, or  *)
(* an array of distinct option values of that question, in any order.      *)

LowerKeys == [i \in 1..NumKeys |-> LowerLetters[i]]

UpperKeys == [i \in 1..NumKeys |-> UpperLetters[i]]

Keys == Range(LowerKeys) \cup Range(UpperKeys)

OptionTexts == <<"alpha", "beta", "gamma", "delta", "epsilon", "zeta">>

\* [{ option: letters[1], option_text: ... }, ...]
OptionArray(letters) == Arr([i \in DOMAIN letters |-> Opt(letters[i], OptionTexts[i])])

\* the sequences without repetition over S
DistinctSeqs(S) ==
    {xs \in UNION {[1..m -> S] : m \in 0..Cardinality(S)} :
        \A i, j \in DOMAIN xs : i # j => xs[i] # xs[j]}

\* { k1: "...", k2: "...", ... }
KeyedObject(ks) == Obj([i \in DOMAIN ks |-> Pair(ks[i], "perche")])

\* answer_option_text: absent, a string, or explanations by (lower-case) key
Explanations ==
    {Undef, Str("perche")} \cup {KeyedObject(ks) : ks \in DistinctSeqs(Range(LowerKeys))}

Objectives == {"FL-1.1.1", "FL-2.3.1"}

\* no value returned yet
NoResult == "none"

\* what userAnswers can hold for a question with these option keys
SubmittedAnswers(letters) ==
    {Undef} \cup {Str(k) : k \in Range(letters)}
            \cup {Arr(xs) : xs \in DistinctSeqs(Range(letters))}

\* one question with every kind of explanation
OneQuestion(letters, k, e) ==
    Question(Str("q1"), OptionArray(letters), Str(k), e, Undef)

\* question number i of a mixed list: single- or multi-answer, with or
\* without a learning objective
MixedQuestion(i, multi, objective) ==
    Question(Str("q" \o ToString(i)), OptionArray(UpperKeys), Str(UpperKeys[1]),
             IF multi
             THEN KeyedObject(<<LowerKeys[1], LowerKeys[NumKeys]>>)
             ELSE Str("perche"),
             objective)

\* a right or a wrong answer to MixedQuestion
MixedAnswer(multi, right) ==
    IF multi
    THEN IF right THEN Arr(<<UpperKeys[NumKeys], UpperKeys[1]>>) ELSE Arr(<<UpperKeys[1]>>)
    ELSE IF right THEN Str(LowerKeys[1]) ELSE Str(UpperKeys[2])

MixedChoices ==
    [multi : BOOLEAN, objective : {Undef} \cup {Str(o) : o \in Objectives},
     right : BOOLEAN]

-----------------------------------------------------------------------------
(* Values of the variables a specification does not use. *)

IdleGrade ==
    /\ questions = <<>>
    /\ userAnswers = <<>>
    /\ gradePc = "idle"
    /\ gradeResult = NoResult

IdleValidate ==
    /\ data = Undef
    /\ filename = ""
    /\ validatePc = "idle"
    /\ validation = NoResult

\* this.timer = null
NoTimer == 0

\* this.currentQuiz = null
NoQuiz == ""

\* this.savedState: not set
NoState == [saved |-> FALSE]

\* 60 * 60: the seconds of an attempt
InitialTime == 3600

\* the object the constructor of QuizApp builds
QuizApp ==
    [quizzes              |-> <<>>,
     currentQuiz          |-> NoQuiz,
     currentQuestions     |-> <<>>,
     currentQuestionIndex |-> 0,
     userAnswers          |-> <<>>,
     timer                |-> NoTimer,
     timeRemaining        |-> InitialTime,
     validationErrors     |-> <<>>,
     savedState           |-> NoState]

\* the page as the document is loaded: the landing page without quiz list
InitialDocument ==
    [page |-> "landing-page", resumePrompt |-> FALSE, quizList |-> {},
     optionInputs |-> <<>>]

\* no second tab
NoTab == [open |-> FALSE]

\* no call of the store
NoCall == [op |-> "none"]

\* no call of a shuffling function is made
IdlePrepare ==
    /\ prepareArg = <<>>
    /\ prepareRandom = <<>>
    /\ preparePc = "idle"
    /\ prepareResult = <<>>

IdleController ==
    /\ app = QuizApp
    /\ dom = InitialDocument
    /\ intervals = {}
    /\ server = <<>>
    /\ loadPc = "idle"
    /\ quizFiles = <<>>
    /\ localStorage = <<>>
    /\ storageFailure = "none"
    /\ now = 0
    /\ storeCall = NoCall
    /\ lastSaved = <<>>
    /\ otherTab = NoTab

-----------------------------------------------------------------------------
(* Grading: gradeQuiz applied to a list of questions and the answers.     *)

InitGrade ==
    /\ \/ \E letters \in {LowerKeys, UpperKeys}, k \in Keys, e \in Explanations :
             \E a \in SubmittedAnswers(letters) :
                /\ questions = <<OneQuestion(letters, k, e)>>
                /\ userAnswers = <<a>>
       \/ \E n \in 1..MaxQuestions :
             \E c \in [1..n -> MixedChoices] :
                /\ questions = [i \in 1..n |->
                                  MixedQuestion(i, c[i].multi, c[i].objective)]
                /\ userAnswers = [i \in 1..n |-> MixedAnswer(c[i].multi, c[i].right)]
       \* a bank of n like questions of which the first k are answered
       \* correctly and the others are not answered
       \/ \E n \in 1..MaxLongLen :
             \E k \in 0..n :
                /\ questions = [i \in 1..n |-> MixedQuestion(i, FALSE, Str("FL-1.1.1"))]
                /\ userAnswers = [i \in 1..n |->
                                    IF i <= k THEN Str(LowerKeys[1]) ELSE Undef]
    /\ gradePc = "ready"
    /\ gradeResult = NoResult
    /\ IdleValidate
    /\ IdleController
    /\ IdlePrepare

\* results = gradeQuiz(questions, userAnswers)
GradeQuizCall ==
    /\ gradePc = "ready"
    /\ gradeResult' = gradeQuiz(questions, userAnswers)
    /\ gradePc' = "done"
    /\ UNCHANGED <<questions, userAnswers>>
    /\ UNCHANGED validateVars
    /\ UNCHANGED controllerVars
    /\ UNCHANGED prepareVars

NextGrade == GradeQuizCall

SpecGrade == InitGrade /\ [][NextGrade]_vars

-----------------------------------------------------------------------------
(* Properties of grading. *)

Graded == gradePc = "done"

Returned == Graded /\ ~gradeResult.raised

\* question i (1-based) is marked correct in the result
MarkedCorrect(i) == Returned /\ IsTrue(gradeResult.results[i].isCorrect)

\* the set of submitted keys, upper-cased
SubmittedKeySet(userAnswer) ==
    IF IsArray(userAnswer)
    THEN {ToUpperCase(k) : k \in Range(userAnswer.items)}
    ELSE IF userAnswer.t = "string" THEN {ToUpperCase(userAnswer.s)} ELSE {}

\* the set of correct keys of a question
CorrectKeySet(question) == Range(getCorrectAnswers(question))

\* no entry, or an entry that is an empty collection
Unanswered(userAnswer) ==
    \/ userAnswer.t = "undefined"
    \/ IsArray(userAnswer) /\ Len(userAnswer.items) = 0

\* C1: a multi-answer question is marked correct if and only if the set of
\* submitted keys, upper-cased, equals the set of correct keys, whatever the
\* order of submission; a missing or an extra key makes it incorrect.
C1_MultiAnswerExactSet ==
    Returned =>
        \A i \in DOMAIN questions :
            isMultiAnswerQuestion(questions[i]) =>
                (MarkedCorrect(i) <=>
                    SubmittedKeySet(userAnswers[i]) = CorrectKeySet(questions[i]))

\* a multi-answer question marked correct on a submission whose order is
\* not the order of the correct keys
C1_Witness ==
    /\ Returned
    /\ \E i \in DOMAIN questions :
          /\ isMultiAnswerQuestion(questions[i])
          /\ MarkedCorrect(i)
          /\ IsArray(userAnswers[i])
          /\ Len(userAnswers[i].items) = 2
          /\ ToUpperCase(userAnswers[i].items[1]) = getCorrectAnswers(questions[i])[2]

\* C2: a single-answer question is marked correct if and only if its entry
\* is one key and that key equals answer_option, compared without case.
C2_SingleAnswerCaseInsensitive ==
    Graded =>
        \A i \in DOMAIN questions :
            ~isMultiAnswerQuestion(questions[i]) =>
                (MarkedCorrect(i) <=>
                    /\ userAnswers[i].t = "string"
                    /\ ToLowerCase(userAnswers[i].s)
                         = ToLowerCase(questions[i].answer_option.s))

\* a single-answer question marked correct on a key written in the other case
C2_Witness ==
    /\ Graded
    /\ \E i \in DOMAIN questions :
          /\ ~isMultiAnswerQuestion(questions[i])
          /\ MarkedCorrect(i)
          /\ userAnswers[i].s # questions[i].answer_option.s

\* C3: an unanswered question (no entry, or an empty collection), single-
\* or multi-answer, is graded incorrect and gradeQuiz does not raise.
C3_UnansweredIncorrectNoRaise ==
    Graded =>
        \A i \in DOMAIN questions :
            Unanswered(userAnswers[i]) =>
                /\ ~gradeResult.raised
                /\ ~IsTrue(gradeResult.results[i].isCorrect)

\* C4: passed is score >= 26 whatever the number of questions.
C4_PassThresholdFixed ==
    Returned => (gradeResult.passed <=> gradeResult.score >= 26)

\* 26 correct answers out of 40 questions pass
C4_Witness ==
    /\ Returned
    /\ gradeResult.total = 40
    /\ gradeResult.score = 26
    /\ gradeResult.passed

\* C5: score is the number of questions judged correct, total the number of
\* questions, 0 <= score <= total, and results has one entry per question
\* in the order of the questions.
C5_ScoreTotalResults ==
    Returned =>
        /\ gradeResult.score
             = Cardinality({i \in DOMAIN gradeResult.results :
                               IsTrue(gradeResult.results[i].isCorrect)})
        /\ gradeResult.total = Len(questions)
        /\ 0 <= gradeResult.score
        /\ gradeResult.score <= gradeResult.total
        /\ Len(gradeResult.results) = Len(questions)
        /\ \A i \in DOMAIN questions :
              gradeResult.results[i].question = questions[i].question_text

\* several questions of which some, not all, are correct, one of them
\* answered and incorrect
C5_Witness ==
    /\ Returned
    /\ Len(questions) > 2
    /\ 0 < gradeResult.score
    /\ gradeResult.score < gradeResult.total
    /\ \E i \in DOMAIN questions : Truthy(userAnswers[i]) /\ ~MarkedCorrect(i)

\* the questions (1-based indices) that carry the learning objective o
Carrying(o) ==
    {i \in DOMAIN questions :
        /\ Truthy(questions[i].learning_objective)
        /\ questions[i].learning_objective.s = o}

\* C6: learningObjectiveStats has a key exactly for each objective carried
\* by a question; total counts the questions carrying it, correct those of
\* them judged correct, correct + incorrect = total; a question without an
\* objective is counted under no key.
C6_ObjectiveStats ==
    Returned =>
        LET stats == gradeResult.learningObjectiveStats
        IN  /\ DOMAIN stats
                 = {questions[i].learning_objective.s :
                      i \in {j \in DOMAIN questions :
                               Truthy(questions[j].learning_objective)}}
            /\ \A o \in DOMAIN stats :
                  /\ stats[o].total = Cardinality(Carrying(o))
                  /\ stats[o].correct
                       = Cardinality({i \in Carrying(o) : MarkedCorrect(i)})
                  /\ stats[o].correct + stats[o].incorrect = stats[o].total

\* two questions of FL-1.1.1, one correct and one incorrect, with a question
\* that has no objective
C6_Witness ==
    /\ Returned
    /\ \E i \in DOMAIN questions : ~Truthy(questions[i].learning_objective)
    /\ DOMAIN gradeResult.learningObjectiveStats = {"FL-1.1.1"}
    /\ gradeResult.learningObjectiveStats["FL-1.1.1"]
         = [total |-> 2, correct |-> 1, incorrect |-> 1]

-----------------------------------------------------------------------------
(* The values validateQuizData is applied to: what JSON.parse can return   *)
(* for a quiz file.                                                        *)

\* an element of the array that is no object: null, 5 or "x"
NonObject(v) ==
    [t |-> v.t, s |-> v.s, items |-> <<>>,
     question_text      |-> Undef,
     question_option    |-> Undef,
     answer_option      |-> Undef,
     answer_option_text |-> Undef,
     learning_objective |-> Undef]

\* { "a": "...", "b": "...", ... }: the options as an object
LegacyOptions(letters) == Obj([i \in DOMAIN letters |-> Pair(letters[i], OptionTexts[i])])

\* the values of question_text in a file
RawTexts == {Undef, Str(""), Str("q1"), Num("5")}

\* the values of question_option in a file: absent, null, a string, a
\* number, an array of 0..NumKeys options, an array with entries that are
\* no options, an object of 0..NumKeys keys
RawOptions ==
    {Undef, Null, Str("AB"), Num("2"), Arr(<<NumItem, NumItem>>),
     Arr(<<Opt("A", "alpha"), NumItem>>)}
        \cup {OptionArray(SubSeq(UpperKeys, 1, m)) : m \in 0..NumKeys}
        \cup {LegacyOptions(SubSeq(LowerKeys, 1, m)) : m \in 0..NumKeys}

\* the values of answer_option in a file; the last is the key of no option
RawAnswers ==
    {Undef, Str(""), Num("1"), Str("A"), Str("b"), Str(UpperLetters[NumKeys + 1])}

\* the values of answer_option_text in a file; the last explains a key of
\* no option
RawExplanations ==
    {Undef, Str("perche"), KeyedObject(<<"a", "b">>),
     KeyedObject(<<"a", LowerLetters[NumKeys + 1]>>)}

NonObjects == {NonObject(Null), NonObject(Num("5")), NonObject(Str("x"))}

RawQuestions ==
    {Question(text, options, answer, explanation, Undef) :
        text \in RawTexts, options \in RawOptions, answer \in RawAnswers,
        explanation \in RawExplanations}
      \cup NonObjects

\* the elements of the longer arrays: two questions that are valid, three
\* that are not
FewQuestions ==
    {Question(Str("q1"), OptionArray(UpperKeys), Str("A"), Str("perche"), Undef),
     Question(Str("q2"), LegacyOptions(LowerKeys), Str("b"), Undef, Str("FL-1.1.1")),
     Question(Undef, OptionArray(UpperKeys), Str("A"), Undef, Undef),
     Question(Str("q1"), OptionArray(<<"A">>), Undef, Undef, Undef),
     NonObject(Null)}

Filenames == {"ITASTQB-QTEST-FL-2023-A-QA.json", "sample-quiz.json"}

-----------------------------------------------------------------------------
(* Validation: validateQuizData applied to the parsed content of a file.  *)

InitValidate ==
    /\ \/ \E q \in RawQuestions : data = Arr(<<q>>)
       \/ \E n \in 0..MaxData : \E qs \in [1..n -> FewQuestions] : data = Arr(qs)
       \/ data \in {Null, Str("x"), Num("5"), Obj(<<>>)}
    /\ filename \in Filenames
    /\ validatePc = "ready"
    /\ validation = NoResult
    /\ IdleGrade
    /\ IdleController
    /\ IdlePrepare

\* validation = validateQuizData(parseResult.data, filename)
ValidateQuizDataCall ==
    /\ validatePc = "ready"
    /\ validation' = validateQuizData(data, filename)
    /\ validatePc' = "done"
    /\ UNCHANGED <<data, filename>>
    /\ UNCHANGED gradeVars
    /\ UNCHANGED controllerVars
    /\ UNCHANGED prepareVars

NextValidate == ValidateQuizDataCall

SpecValidate == InitValidate /\ [][NextValidate]_vars

-----------------------------------------------------------------------------
(* Properties of validation. *)

Validated == validatePc = "done"

\* an array of at least one element was validated
ValidatedArray == Validated /\ IsArray(data) /\ Len(data.items) > 0

\* the question is among the valid questions returned
Accepted(q) == \E j \in DOMAIN validation.validQuestions : validation.validQuestions[j] = q

\* the keys of the options of a question, upper-cased
OptionKeySet(question) ==
    {ToUpperCase(question.question_option.items[i].option) :
        i \in DOMAIN question.question_option.items}

\* C8: for every question the validator accepts, the correct keys are keys
\* of the question's options.
C8_CorrectKeysAmongOptions ==
    ValidatedArray =>
        \A j \in DOMAIN validation.validQuestions :
            CorrectKeySet(validation.validQuestions[j])
                \subseteq OptionKeySet(validation.validQuestions[j])

\* an entry of an options array that is an option: an object with an option
\* key and a text
OptionLike(item) == item.t = "object" /\ item.option # "" /\ item.option_text # ""

IsObjectValue(v) == v.t = "object"

NonEmptyString(v) == v.t = "string" /\ v.s # ""

\* the options the claim accepts: an array of at least 2 option-like
\* entries, or an object with at least 2 keys
OptionsAsClaimed(v) ==
    \/ /\ IsArray(v)
       /\ Len(v.items) >= 2
       /\ \A i \in DOMAIN v.items : OptionLike(v.items[i])
    \/ /\ IsObjectValue(v)
       /\ Len(v.items) >= 2

\* a diagnostic of the file for element i (1-based) with this message
HasDiagnostic(i, msgs) ==
    \E k \in DOMAIN validation.errors :
        /\ validation.errors[k].file = filename
        /\ validation.errors[k].domanda = i
        /\ validation.errors[k].msg \in msgs

\* C9: a question is accepted if and only if it is an object, its text is a
\* non-empty string, its options are an array of at least 2 option-like
\* entries or an object with at least 2 keys, and its answer_option is a
\* non-empty string; each failed check adds its own diagnostic.
C9_AcceptedIffChecks ==
    ValidatedArray =>
        \A i \in DOMAIN data.items :
            LET q == data.items[i]
            IN  /\ Accepted(q) <=>
                      /\ IsObjectValue(q)
                      /\ NonEmptyString(q.question_text)
                      /\ OptionsAsClaimed(q.question_option)
                      /\ NonEmptyString(q.answer_option)
                /\ ~IsObjectValue(q) =>
                      HasDiagnostic(i, {"Non e un oggetto valido"})
                /\ IsObjectValue(q) /\ ~NonEmptyString(q.question_text) =>
                      HasDiagnostic(i, {"Manca question_text o non e una stringa"})
                /\ IsObjectValue(q) /\ ~OptionsAsClaimed(q.question_option) =>
                      HasDiagnostic(i, {"Manca question_option",
                                        "Deve avere almeno 2 opzioni",
                                        "question_option deve essere un array o un oggetto"})
                /\ IsObjectValue(q) /\ ~NonEmptyString(q.answer_option) =>
                      HasDiagnostic(i, {"Manca answer_option o non e una stringa"})

\* the element passes all the checks of validateQuestion
PassesAllChecks(q) == validateQuestion(q, 0).isValid

\* C10: of an array, the valid questions returned are exactly the elements
\* that pass all checks, in their order; every failing element has at least
\* one diagnostic and no valid element has any; a failing element does not
\* stop the validation of the elements after it.
C10_ElementsValidatedIndependently ==
    ValidatedArray =>
        /\ validation.validQuestions = SelectSeq(data.items, PassesAllChecks)
        /\ \A i \in DOMAIN data.items :
              PassesAllChecks(data.items[i]) <=>
                  ~(\E k \in DOMAIN validation.errors : validation.errors[k].domanda = i)
        /\ \A k \in DOMAIN validation.errors :
              /\ validation.errors[k].file = filename
              /\ validation.errors[k].domanda \in DOMAIN data.items

\* a failing element followed by a valid one that is returned
C10_Witness ==
    /\ ValidatedArray
    /\ \E i, j \in DOMAIN data.items :
          /\ i < j
          /\ ~PassesAllChecks(data.items[i])
          /\ PassesAllChecks(data.items[j])
          /\ Accepted(data.items[j])
          /\ HasDiagnostic(i, {"Manca question_text o non e una stringa"})

\* C11: when the input of validateQuizData is not an array, or is an empty
\* array, the result has zero valid questions and exactly one diagnostic;
\* the call returns (no error is raised).
C11_NotArrayOrEmptyOneDiagnostic ==
    (Validated /\ (~IsArray(data) \/ Len(data.items) = 0)) =>
        /\ Len(validation.validQuestions) = 0
        /\ Len(validation.errors) = 1

\* an empty array was validated and one diagnostic about the file was returned
C11_Witness ==
    /\ Validated
    /\ data = Arr(<<>>)
    /\ validation.errors =
          <<[file |-> filename, domanda |-> 0, msg |-> "L'array delle domande e vuoto"]>>

-----------------------------------------------------------------------------
(* Loading the question banks: loadQuizzes, getQuizFiles, loadQuizFile and *)
(* loadSampleQuiz of QuizApp.  The server holds one document per file; a   *)
(* fetch of it is answered with a status and a body, or rejected.          *)

\* the files of knownFiles that are looked for
NumKnownFiles == 2

knownFiles ==
    <<"ITASTQB-gloss&sylla.json",
      "ITASTQB-QTEST-FL-2023-A-QA.json",
      "ITASTQB-QTEST-FL-2023-B-QA.json",
      "ITASTQB-QTEST-FL-2023-C-QA.json",
      "ITASTQB-QTEST-FL-2023-D-QA.json">>

KnownFiles == SubSeq(knownFiles, 1, NumKnownFiles)

SampleQuizFile == "sample-quiz.json"

SampleQuizName == "sample-quiz"

\* filename.replace(/\.[^/.]+$/, '').replace(/-/g, ' ') on the known files
getQuizTitle(file) ==
    CASE file = "ITASTQB-gloss&sylla.json"        -> "ITASTQB gloss&sylla"
      [] file = "ITASTQB-QTEST-FL-2023-A-QA.json" -> "ITASTQB QTEST FL 2023 A QA"
      [] file = "ITASTQB-QTEST-FL-2023-B-QA.json" -> "ITASTQB QTEST FL 2023 B QA"
      [] file = "ITASTQB-QTEST-FL-2023-C-QA.json" -> "ITASTQB QTEST FL 2023 C QA"
      [] file = "ITASTQB-QTEST-FL-2023-D-QA.json" -> "ITASTQB QTEST FL 2023 D QA"
      [] file = "sample-quiz.json"                -> "sample quiz"

\* a body: text that is JSON for the value data, or text that is no JSON
JsonText(d) == [json |-> TRUE, data |-> d]

NoJsonText == [json |-> FALSE, data |-> Null]

\* safeJsonParse(jsonString)
safeJsonParse(jsonString) ==
    IF jsonString.json
    THEN [success |-> TRUE, data |-> jsonString.data, error |-> ""]
    ELSE [success |-> FALSE, data |-> Null, error |-> "Unexpected token"]

\* the answers of the server to a fetch: the promise is rejected; the file
\* does not exist (status 404 with a page that is no JSON); the body cannot
\* be read; the body is read
FetchRejected == [fetch |-> "rejected", ok |-> FALSE, body |-> "none", text |-> NoJsonText]

NotFound == [fetch |-> "resolved", ok |-> FALSE, body |-> "read", text |-> NoJsonText]

BodyRejected == [fetch |-> "resolved", ok |-> TRUE, body |-> "rejected", text |-> NoJsonText]

Served(text) == [fetch |-> "resolved", ok |-> TRUE, body |-> "read", text |-> text]

\* the two valid questions and the invalid one of the served documents
FirstQuestion == Question(Str("q1"), OptionArray(<<"A", "B">>), Str("A"), Str("perche"), Undef)

SecondQuestion ==
    Question(Str("q2"), LegacyOptions(<<"a", "b">>), Str("a"),
             KeyedObject(<<"a", "b">>), Str("FL-1.1.1"))

BadQuestion == Question(Undef, OptionArray(<<"A", "B">>), Str("A"), Undef, Undef)

\* the values of the served documents: no array, the empty array, an array
\* without a valid question, arrays with valid questions
ServedData ==
    {Obj(<<>>), Arr(<<>>), Arr(<<BadQuestion>>), Arr(<<FirstQuestion, BadQuestion>>),
     Arr(<<FirstQuestion, SecondQuestion>>)}

Responses ==
    {FetchRejected, NotFound, BodyRejected, Served(NoJsonText)}
        \cup {Served(JsonText(d)) : d \in ServedData}

SourceFiles == Range(KnownFiles) \cup {SampleQuizFile}

\* `${filename}: Errore parsing JSON - ${parseResult.error}`
ParseDiagnostic(file) == [file |-> file, domanda |-> 0, msg |-> "Errore parsing JSON"]

\* `${filename}: Errore caricamento file - ${error.message}`
LoadDiagnostic(file) == [file |-> file, domanda |-> 0, msg |-> "Errore caricamento file"]

\* this.quizzes.set(quizName, bank)
MapSet(map, key, value) == (key :> value) @@ map

\* getQuizFiles(): the known files whose fetch is answered with response.ok
getQuizFiles(responses) ==
    SelectSeq(KnownFiles, LAMBDA file : responses[file].fetch = "resolved" /\ responses[file].ok)

\* loadQuizFile that registers the bank whatever validation.isValid is
loadQuizFileRegistersAlways(self, file, response) ==
    IF response.fetch = "rejected" \/ response.body = "rejected"
    THEN [self EXCEPT !.validationErrors = Append(@, LoadDiagnostic(file))]
    ELSE LET parseResult == safeJsonParse(response.text) IN
         IF ~parseResult.success
         THEN [self EXCEPT !.validationErrors = Append(@, ParseDiagnostic(file))]
         ELSE LET result == validateQuizData(parseResult.data, file) IN
              [self EXCEPT !.quizzes = MapSet(@, getQuizTitle(file), result.validQuestions),
                           !.validationErrors = @ \o result.errors]

\* loadQuizFile(filename): this after the call
loadQuizFile(self, file, response) ==
    IF response.fetch = "rejected" \/ response.body = "rejected"
    THEN [self EXCEPT !.validationErrors = Append(@, LoadDiagnostic(file))]
    ELSE LET parseResult == safeJsonParse(response.text) IN
         IF ~parseResult.success
         THEN [self EXCEPT !.validationErrors = Append(@, ParseDiagnostic(file))]
         ELSE LET result == validateQuizData(parseResult.data, file) IN
              [self EXCEPT !.quizzes = IF result.isValid
                                       THEN MapSet(@, getQuizTitle(file), result.validQuestions)
                                       ELSE @,
                           !.validationErrors = @ \o result.errors]

\* loadSampleQuiz(): this after the call
loadSampleQuiz(self, response) ==
    IF response.fetch = "rejected" \/ ~response.ok \/ response.body = "rejected"
    THEN self
    ELSE LET parseResult == safeJsonParse(response.text) IN
         IF ~parseResult.success
         THEN self
         ELSE LET result == validateQuizData(parseResult.data, SampleQuizFile) IN
              [self EXCEPT !.quizzes = IF result.isValid
                                       THEN MapSet(@, SampleQuizName, result.validQuestions)
                                       ELSE @,
                           !.validationErrors = @ \o result.errors]

IdleStore ==
    /\ localStorage = <<>>
    /\ storageFailure = "none"
    /\ now = 0
    /\ storeCall = NoCall
    /\ lastSaved = <<>>
    /\ otherTab = NoTab

\* new QuizApp() on a loaded document: initializeApp has set up the
\* listeners and loadQuizzes is about to ask for the files
InitLoad ==
    /\ app = QuizApp
    /\ dom = InitialDocument
    /\ intervals = {}
    /\ server \in [SourceFiles -> Responses]
    /\ loadPc = "getQuizFiles"
    /\ quizFiles = <<>>
    /\ IdleStore
    /\ IdleGrade
    /\ IdleValidate
    /\ IdlePrepare

\* const quizFiles = await this.getQuizFiles()
GetQuizFiles ==
    /\ loadPc = "getQuizFiles"
    /\ quizFiles' = getQuizFiles(server)
    /\ loadPc' = IF Len(quizFiles') = 0 THEN "loadSampleQuiz" ELSE "loadQuizFile"
    /\ UNCHANGED <<app, dom, intervals, server>>
    /\ UNCHANGED <<storeVars, storeCall, lastSaved, otherTab, gradeVars, validateVars, prepareVars>>

\* for (const file of quizFiles) await this.loadQuizFile(file)
LoadQuizFile ==
    /\ loadPc = "loadQuizFile"
    /\ app' = loadQuizFile(app, Head(quizFiles), server[Head(quizFiles)])
    /\ quizFiles' = Tail(quizFiles)
    /\ loadPc' = IF Len(quizFiles') = 0 THEN "loaded" ELSE "loadQuizFile"
    /\ UNCHANGED <<dom, intervals, server>>
    /\ UNCHANGED <<storeVars, storeCall, lastSaved, otherTab, gradeVars, validateVars, prepareVars>>

\* await this.loadSampleQuiz(), when no file was found
LoadSampleQuiz ==
    /\ loadPc = "loadSampleQuiz"
    /\ app' = loadSampleQuiz(app, server[SampleQuizFile])
    /\ loadPc' = "loaded"
    /\ UNCHANGED <<dom, intervals, server, quizFiles>>
    /\ UNCHANGED <<storeVars, storeCall, lastSaved, otherTab, gradeVars, validateVars, prepareVars>>

\* displayQuizList(): a start button for every registered bank
displayQuizList(document, self) == [document EXCEPT !.quizList = DOMAIN self.quizzes]

\* the end of loadQuizzes, then displayQuizList()
DisplayQuizList ==
    /\ loadPc = "loaded"
    /\ dom' = displayQuizList(dom, app)
    /\ loadPc' = "done"
    /\ UNCHANGED <<app, intervals, server, quizFiles>>
    /\ UNCHANGED <<storeVars, storeCall, lastSaved, otherTab, gradeVars, validateVars, prepareVars>>

NextLoad == GetQuizFiles \/ LoadQuizFile \/ LoadSampleQuiz \/ DisplayQuizList

SpecLoad == InitLoad /\ [][NextLoad]_vars

-----------------------------------------------------------------------------
(* Properties of loading. *)

Loaded == loadPc = "done"

\* the sources loadQuizzes reads: the files found, or else the sample quiz
SourcesRead ==
    IF Len(getQuizFiles(server)) = 0 THEN {SampleQuizFile} ELSE Range(getQuizFiles(server))

\* the name a source is registered under
QuizNameOf(file) == IF file = SampleQuizFile THEN SampleQuizName ELSE getQuizTitle(file)

\* the body of the source was read and is JSON for a value
Parsed(file) == server[file].body = "read" /\ server[file].text.json

\* the valid questions of a source
ValidQuestionsOf(file) ==
    IF Parsed(file) /\ server[file].ok
    THEN validateQuizData(server[file].text.data, file).validQuestions
    ELSE <<>>

\* C12: after any sequence of source loads every registered bank is
\* non-empty, and a source that yields no valid question is not registered.
C12_RegisteredBanksNonEmpty ==
    /\ \A name \in DOMAIN app.quizzes : Len(app.quizzes[name]) > 0
    /\ Loaded =>
          \A file \in SourcesRead :
              Len(ValidQuestionsOf(file)) = 0 => QuizNameOf(file) \notin DOMAIN app.quizzes

\* a file without a valid question was loaded and is not registered, the
\* file after it is
C12_Witness ==
    /\ Loaded
    /\ Len(getQuizFiles(server)) = 2
    /\ server[KnownFiles[1]] = Served(JsonText(Arr(<<BadQuestion>>)))
    /\ DOMAIN app.quizzes = {getQuizTitle(KnownFiles[2])}

\* the body of the source was read and is no JSON
FailsToParse(file) ==
    /\ server[file].fetch = "resolved" /\ server[file].ok
    /\ server[file].body = "read"
    /\ ~server[file].text.json

\* a diagnostic of the source is recorded
DiagnosticRecorded(file) ==
    \E k \in DOMAIN app.validationErrors : app.validationErrors[k].file = file

\* C13: for every source (quiz file or the sample quiz) whose document
\* fails to parse, ingestion records a diagnostic for that source, registers
\* no bank for it, and goes on to the remaining sources (their valid
\* questions are registered).
C13_ParseFailureDiagnosed ==
    Loaded =>
        \A file \in SourcesRead :
            /\ FailsToParse(file) =>
                  /\ DiagnosticRecorded(file)
                  /\ QuizNameOf(file) \notin DOMAIN app.quizzes
            /\ Len(ValidQuestionsOf(file)) > 0 =>
                  /\ QuizNameOf(file) \in DOMAIN app.quizzes
                  /\ app.quizzes[QuizNameOf(file)] = ValidQuestionsOf(file)

-----------------------------------------------------------------------------
(* The session store: saveQuizState, loadQuizState and clearQuizState of   *)
(* src/utils.js on window.localStorage.  An entry of localStorage is a     *)
(* text (JsonText(d) or NoJsonText).  The storage of the browser works    *)
(* ("none"), or its quota is exceeded and setItem throws ("quota"), or    *)
(* the browser gives no access to it and every call throws ("denied").    *)

\* const maxAge = 24 * 60 * 60 * 1000
maxAge == 86400000

\* `quiz_${quizName}`
StorageKey(quizName) == "quiz_" \o quizName

\* the properties of a question that hold a value or are absent
QuestionProperties ==
    {"question_text", "question_option", "answer_option", "answer_option_text",
     "learning_objective", "original_options"}

\* JSON.stringify of a question: a property that is undefined is left out
StringifyQuestion(question) ==
    [p \in {p \in DOMAIN question : p \notin QuestionProperties \/ question[p] # Undef}
        |-> question[p]]

\* JSON.stringify of userAnswers: an entry that is undefined is left out
StringifyAnswers(answers) ==
    [k \in {k \in DOMAIN answers : answers[k] # Undef} |-> answers[k]]

\* JSON.stringify({ ...state, timestamp: Date.now() })
JsonStringify(state, time) ==
    JsonText([questions            |-> [i \in DOMAIN state.questions |->
                                           StringifyQuestion(state.questions[i])],
              currentQuestionIndex |-> state.currentQuestionIndex,
              userAnswers          |-> StringifyAnswers(state.userAnswers),
              timeRemaining        |-> state.timeRemaining,
              timestamp            |-> time])

\* a question of JSON.parse: a property that is left out reads undefined
ParseQuestion(members) ==
    [p \in DOMAIN members \cup QuestionProperties |->
        IF p \in DOMAIN members THEN members[p] ELSE Undef]

\* JSON.parse(saved) of a text that is JSON
JsonParse(saved) ==
    [questions            |-> [i \in DOMAIN saved.data.questions |->
                                  ParseQuestion(saved.data.questions[i])],
     currentQuestionIndex |-> saved.data.currentQuestionIndex,
     userAnswers          |-> saved.data.userAnswers,
     timeRemaining        |-> saved.data.timeRemaining,
     timestamp            |-> saved.data.timestamp]

\* localStorage.removeItem(key)
RemoveItem(storage, key) == [k \in DOMAIN storage \ {key} |-> storage[k]]

\* saveQuizState that loses the entry when setItem throws
saveQuizStateLosesEntry(storage, failure, quizName, state, time) ==
    IF failure = "none"
    THEN MapSet(storage, StorageKey(quizName), JsonStringify(state, time))
    ELSE RemoveItem(storage, StorageKey(quizName))

\* saveQuizState that leaves the time out of the snapshot
saveQuizStateWithoutTime(storage, failure, quizName, state, time) ==
    IF failure = "none"
    THEN MapSet(storage, StorageKey(quizName),
                JsonStringify([state EXCEPT !.timeRemaining = InitialTime], time))
    ELSE storage

\* saveQuizState that writes the answers into the entry that is there
saveQuizStateMerges(storage, failure, quizName, state, time) ==
    IF failure = "none"
    THEN IF StorageKey(quizName) \in DOMAIN storage /\ storage[StorageKey(quizName)].json
         THEN MapSet(storage, StorageKey(quizName),
                     JsonStringify([JsonParse(storage[StorageKey(quizName)])
                                       EXCEPT !.userAnswers = state.userAnswers], time))
         ELSE MapSet(storage, StorageKey(quizName), JsonStringify(state, time))
    ELSE storage

\* saveQuizState(quizName, state): localStorage after the call
saveQuizState(storage, failure, quizName, state, time) ==
    IF failure = "none"
    THEN MapSet(storage, StorageKey(quizName), JsonStringify(state, time))
    ELSE storage

\* loadQuizState that keeps a state of exactly maxAge
loadQuizStateAtMostMaxAge(storage, failure, quizName, time) ==
    LET key == StorageKey(quizName) IN
    IF failure = "denied" \/ key \notin DOMAIN storage
    THEN [state |-> NoState, storage |-> storage]
    ELSE IF ~storage[key].json
         THEN [state |-> NoState, storage |-> storage]
         ELSE LET state == JsonParse(storage[key]) IN
              IF time - state.timestamp <= maxAge
              THEN [state |-> state, storage |-> storage]
              ELSE [state |-> NoState, storage |-> RemoveItem(storage, key)]

\* loadQuizState(quizName): the state returned (NoState for null) and
\* localStorage after the call
loadQuizState(storage, failure, quizName, time) ==
    LET key == StorageKey(quizName) IN
    IF failure = "denied" \/ key \notin DOMAIN storage
    THEN [state |-> NoState, storage |-> storage]
    ELSE IF ~storage[key].json
         THEN [state |-> NoState, storage |-> storage]
         ELSE LET state == JsonParse(storage[key]) IN
              IF time - state.timestamp < maxAge
              THEN [state |-> state, storage |-> storage]
              ELSE [state |-> NoState, storage |-> RemoveItem(storage, key)]

\* clearQuizState(quizName): localStorage after the call
clearQuizState(storage, failure, quizName) ==
    IF failure # "denied" THEN RemoveItem(storage, StorageKey(quizName)) ELSE storage

-----------------------------------------------------------------------------
(* The controller: the methods of QuizApp.  A method is an operator on the *)
(* world w it reads and writes:                                            *)
(*   w.app           this;                                                 *)
(*   w.dom           the page (active page, resume prompt shown or the     *)
(*                   question and controls, start buttons, option inputs); *)
(*   w.intervals     the running intervals;                                *)
(*   w.localStorage, w.storageFailure, w.now   the store and the clock;  *)
(*   w.grade         the call of gradeQuiz of the last submission, while   *)
(*                   its results are shown.                                *)
(* The disabled state of the previous and next buttons is not kept: it     *)
(* is set by updateNavigationButtons to the negation of the guard the      *)
(* method itself tests.                                                    *)

\* the seconds between two automatic saves
AutoSavePeriod == 30

\* the ticks of the countdown that are followed after a start, before an
\* automatic save and before the time is up
MaxTicks == 1

\* the values Math.floor(Math.random() * (i + 1)) takes in the loop of
\* shuffleArray on an array of n elements: random[i] \in 0..i
RandomDraws(n) == {random \in [1..(n - 1) -> 0..(n - 1)] : \A i \in 1..(n - 1) : random[i] <= i}

\* [a[i], a[j]] = [a[j], a[i]], for 0-based i and j
Swap(a, i, j) ==
    [k \in DOMAIN a |-> IF k = i + 1 THEN a[j + 1] ELSE IF k = j + 1 THEN a[i + 1] ELSE a[k]]

RECURSIVE ShuffleLoop(_, _, _)
\* for (let i = shuffled.length - 1; i > 0; i--)
ShuffleLoop(shuffled, i, random) ==
    IF i > 0
    THEN ShuffleLoop(Swap(shuffled, i, random[i]), i - 1, random)
    ELSE shuffled

\* shuffleArray whose loop begins one element too early
shuffleArrayFromSecondLast(array, random) == ShuffleLoop(array, Len(array) - 2, random)

\* shuffleArray(array), with the values of Math.random()
shuffleArray(array, random) == ShuffleLoop(array, Len(array) - 1, random)

\* ({ ...question, p1: v1, ... })
Spread(question, properties) == properties @@ question

\* prepareQuestionForDisplay that leaves the keys of an object as they are
prepareQuestionForDisplayKeepsKeyCase(question, random) ==
    IF ~Truthy(question.question_option)
    THEN question
    ELSE IF TypeOf(question.question_option) = "object"
    THEN Spread(question,
                [question_option  |-> Arr(shuffleArray(
                                          [i \in DOMAIN question.question_option.items |->
                                              Opt(question.question_option.items[i].option,
                                                  question.question_option.items[i].option_text)],
                                          random)),
                 original_options |-> question.question_option,
                 isMultiAnswer    |-> isMultiAnswerQuestion(question)])
    ELSE Spread(question, [isMultiAnswer |-> isMultiAnswerQuestion(question)])

\* prepareQuestionForDisplay(question), with the values of Math.random()
prepareQuestionForDisplay(question, random) ==
    IF ~Truthy(question.question_option)
    THEN question
    ELSE IF IsArray(question.question_option)
    THEN Spread(question,
                [question_option  |-> Arr(shuffleArray(question.question_option.items, random)),
                 original_options |-> question.question_option,
                 isMultiAnswer    |-> isMultiAnswerQuestion(question)])
    ELSE IF TypeOf(question.question_option) = "object"
    THEN LET optionArray ==
                 [i \in DOMAIN question.question_option.items |->
                     Opt(ToUpperCase(question.question_option.items[i].option),
                         question.question_option.items[i].option_text)]
         IN  Spread(question,
                    [question_option  |-> Arr(shuffleArray(optionArray, random)),
                     original_options |-> question.question_option,
                     isMultiAnswer    |-> isMultiAnswerQuestion(question)])
    ELSE Spread(question, [isMultiAnswer |-> isMultiAnswerQuestion(question)])

\* the values of Math.random() in shuffleArray(questions).map(prepareQuestionForDisplay):
\* those of the shuffle of the bank and those of the options of each question
OptionCount(question) == Len(question.question_option.items)

RandomValues(bank) ==
    {random \in [order   : RandomDraws(Len(bank)),
                 options : [DOMAIN bank ->
                               UNION {RandomDraws(OptionCount(bank[i])) : i \in DOMAIN bank}]] :
        \A i \in DOMAIN bank :
            random.options[i] \in RandomDraws(OptionCount(shuffleArray(bank, random.order)[i]))}

\* the world of the tab
World ==
    [app |-> app, dom |-> dom, intervals |-> intervals,
     localStorage |-> localStorage, storageFailure |-> storageFailure, now |-> now,
     grade |-> [questions |-> questions, userAnswers |-> userAnswers,
                gradePc |-> gradePc, gradeResult |-> gradeResult]]

\* the tab's part of the next state is w
Becomes(w) ==
    /\ app' = w.app
    /\ dom' = w.dom
    /\ intervals' = w.intervals
    /\ localStorage' = w.localStorage
    /\ questions' = w.grade.questions
    /\ userAnswers' = w.grade.userAnswers
    /\ gradePc' = w.grade.gradePc
    /\ gradeResult' = w.grade.gradeResult
    /\ UNCHANGED <<storageFailure, now, server, loadPc, quizFiles, validateVars, prepareVars>>
    /\ UNCHANGED <<storeCall, lastSaved, otherTab>>

\* no call of gradeQuiz
NoGrade == [questions |-> <<>>, userAnswers |-> <<>>, gradePc |-> "idle", gradeResult |-> NoResult]

\* showPage(pageId); the results of gradeQuiz are kept while the results
\* page shows them
showPage(w, pageId) ==
    [w EXCEPT !.dom.page = pageId,
              !.grade = IF pageId = "results-page" THEN @ ELSE NoGrade]

\* the id setInterval returns: one no running interval has
SetInterval(running) ==
    CHOOSE id \in 1..(Cardinality(running) + 1) :
        id \notin running /\ \A k \in 1..(id - 1) : k \in running

\* startTimer(): this.timer = setInterval(...)
startTimer(w) ==
    LET id == SetInterval(w.intervals)
    IN  [w EXCEPT !.app.timer = id, !.intervals = @ \cup {id}]

\* clearInterval that stops nothing
clearIntervalStopsNothing(w) == w

\* clearInterval(this.timer)
clearInterval(w) == [w EXCEPT !.intervals = @ \ {w.app.timer}]

\* question.isMultiAnswer, undefined when the question was not prepared
IsMultiAnswer(question) ==
    IF "isMultiAnswer" \in DOMAIN question THEN question.isMultiAnswer ELSE FALSE

\* the inputs displayCurrentQuestion puts into options-container
OptionInputs(question) ==
    IF Truthy(question.question_option) /\ IsArray(question.question_option)
    THEN LET shown == SelectSeq(question.question_option.items,
                                LAMBDA o : o.t = "object" /\ o.option # "" /\ o.option_text # "")
         IN  [i \in DOMAIN shown |->
                 [type  |-> IF IsMultiAnswer(question) THEN "checkbox" ELSE "radio",
                  value |-> shown[i].option]]
    ELSE <<>>

\* displayCurrentQuestion(): without a current question the async method
\* is rejected at question.question_text and the page is left as it is
displayCurrentQuestion(w) ==
    IF w.app.currentQuestionIndex + 1 \in DOMAIN w.app.currentQuestions
    THEN [w EXCEPT !.dom.optionInputs =
                       OptionInputs(w.app.currentQuestions[w.app.currentQuestionIndex + 1])]
    ELSE w

\* startQuizDisplay()
startQuizDisplay(w) ==
    displayCurrentQuestion(
        startTimer([showPage(w, "quiz-page") EXCEPT !.dom.resumePrompt = FALSE]))

\* initializeNewQuiz that shuffles the bank itself, not a copy of it
initializeNewQuizShufflesBank(w, quizName, random) ==
    LET shuffled == shuffleArray(w.app.quizzes[quizName], random.order)
    IN  startQuizDisplay(
            [w EXCEPT !.app.currentQuiz = quizName,
                      !.app.quizzes[quizName] = shuffled,
                      !.app.currentQuestions =
                          [i \in DOMAIN shuffled |->
                              prepareQuestionForDisplay(shuffled[i], random.options[i])],
                      !.app.currentQuestionIndex = 0,
                      !.app.userAnswers = <<>>,
                      !.app.timeRemaining = InitialTime])

\* initializeNewQuiz(quizName)
initializeNewQuiz(w, quizName, random) ==
    LET shuffled == shuffleArray(w.app.quizzes[quizName], random.order)
    IN  startQuizDisplay(
            [w EXCEPT !.app.currentQuiz = quizName,
                      !.app.currentQuestions =
                          [i \in DOMAIN shuffled |->
                              prepareQuestionForDisplay(shuffled[i], random.options[i])],
                      !.app.currentQuestionIndex = 0,
                      !.app.userAnswers = <<>>,
                      !.app.timeRemaining = InitialTime])

\* setupResumePrompt(savedState)
setupResumePrompt(w, savedState) ==
    [showPage(w, "quiz-page") EXCEPT !.dom.resumePrompt = TRUE,
                                     !.app.savedState = savedState]

\* startQuiz that always begins a new attempt
startQuizIgnoresSavedState(w, quizName, random) ==
    LET loaded == loadQuizState(w.localStorage, w.storageFailure, quizName, w.now)
    IN  initializeNewQuiz([w EXCEPT !.localStorage = loaded.storage], quizName, random)

\* startQuiz(quizName)
startQuiz(w, quizName, random) ==
    LET loaded == loadQuizState(w.localStorage, w.storageFailure, quizName, w.now)
        w1 == [w EXCEPT !.localStorage = loaded.storage]
    IN  IF loaded.state # NoState
        THEN setupResumePrompt([w1 EXCEPT !.app.currentQuiz = quizName], loaded.state)
        ELSE initializeNewQuiz(w1, quizName, random)

\* resumeQuiz that begins at the first question
resumeQuizAtFirstQuestion(w) ==
    [startQuizDisplay(
         [w EXCEPT !.app.currentQuestions = w.app.savedState.questions,
                   !.app.currentQuestionIndex = 0,
                   !.app.userAnswers = w.app.savedState.userAnswers,
                   !.app.timeRemaining = w.app.savedState.timeRemaining])
        EXCEPT !.app.savedState = NoState]

\* resumeQuiz()
resumeQuiz(w) ==
    [startQuizDisplay(
         [w EXCEPT !.app.currentQuestions = w.app.savedState.questions,
                   !.app.currentQuestionIndex = w.app.savedState.currentQuestionIndex,
                   !.app.userAnswers = w.app.savedState.userAnswers,
                   !.app.timeRemaining = w.app.savedState.timeRemaining])
        EXCEPT !.app.savedState = NoState]

\* clearQuizState(this.currentQuiz)
clearCurrentState(w) ==
    [w EXCEPT !.localStorage = clearQuizState(@, w.storageFailure, w.app.currentQuiz)]

\* restartQuiz without clearQuizState
restartQuizKeepsState(w, random) == initializeNewQuiz(w, w.app.currentQuiz, random)

\* restartQuiz()
restartQuiz(w, random) == initializeNewQuiz(clearCurrentState(w), w.app.currentQuiz, random)

\* the state saveCurrentState saves
CurrentState(self) ==
    [questions            |-> self.currentQuestions,
     currentQuestionIndex |-> self.currentQuestionIndex,
     userAnswers          |-> self.userAnswers,
     timeRemaining        |-> self.timeRemaining]

\* saveCurrentState that saves whatever the time is
saveCurrentStateAtAnyTime(w) ==
    IF w.app.currentQuiz # NoQuiz
    THEN [w EXCEPT !.localStorage =
                       saveQuizState(@, w.storageFailure, w.app.currentQuiz,
                                     CurrentState(w.app), w.now)]
    ELSE w

\* saveCurrentState()
saveCurrentState(w) ==
    IF w.app.currentQuiz # NoQuiz /\ w.app.timeRemaining > 0
    THEN [w EXCEPT !.localStorage =
                       saveQuizState(@, w.storageFailure, w.app.currentQuiz,
                                     CurrentState(w.app), w.now)]
    ELSE w

\* selectOption that saves the state before it records the answer
selectOptionSavesFirst(w, optionValue) ==
    [saveCurrentState(w)
        EXCEPT !.app.userAnswers = MapSet(@, w.app.currentQuestionIndex + 1, Str(optionValue))]

\* selectOption(optionValue)
selectOption(w, optionValue) ==
    saveCurrentState(
        [w EXCEPT !.app.userAnswers = MapSet(@, w.app.currentQuestionIndex + 1, Str(optionValue))])

\* selectMultiOption that adds a checked option whether it is there or not
selectMultiOptionAlwaysAdds(w, optionValue, isChecked) ==
    LET current == UserAnswerAt(w.app.userAnswers, w.app.currentQuestionIndex)
        selected == IF Truthy(current) /\ IsArray(current) THEN current.items ELSE <<>>
        changed == IF isChecked
                   THEN Append(selected, optionValue)
                   ELSE SelectSeq(selected, LAMBDA value : value # optionValue)
    IN  saveCurrentState(
            [w EXCEPT !.app.userAnswers = MapSet(@, w.app.currentQuestionIndex + 1, Arr(changed))])

\* selectMultiOption(optionValue, isChecked)
selectMultiOption(w, optionValue, isChecked) ==
    LET current == UserAnswerAt(w.app.userAnswers, w.app.currentQuestionIndex)
        selected == IF Truthy(current) /\ IsArray(current) THEN current.items ELSE <<>>
        changed == IF isChecked
                   THEN IF Includes(selected, optionValue)
                        THEN selected
                        ELSE Append(selected, optionValue)
                   ELSE SelectSeq(selected, LAMBDA value : value # optionValue)
    IN  saveCurrentState(
            [w EXCEPT !.app.userAnswers = MapSet(@, w.app.currentQuestionIndex + 1, Arr(changed))])

\* previousQuestion that moves the question along with the index
previousQuestionMovesQuestion(w) ==
    IF w.app.currentQuestionIndex > 0
    THEN displayCurrentQuestion(
             [w EXCEPT !.app.currentQuestions =
                           Swap(@, w.app.currentQuestionIndex, w.app.currentQuestionIndex - 1),
                       !.app.currentQuestionIndex = @ - 1])
    ELSE w

\* previousQuestion()
previousQuestion(w) ==
    IF w.app.currentQuestionIndex > 0
    THEN displayCurrentQuestion([w EXCEPT !.app.currentQuestionIndex = @ - 1])
    ELSE w

\* nextQuestion()
nextQuestion(w) ==
    IF w.app.currentQuestionIndex < Len(w.app.currentQuestions) - 1
    THEN displayCurrentQuestion([w EXCEPT !.app.currentQuestionIndex = @ + 1])
    ELSE w

\* submitQuiz that leaves the countdown running
submitQuizKeepsCountdown(w) ==
    LET w1 == clearCurrentState(w)
        results == gradeQuiz(w1.app.currentQuestions, w1.app.userAnswers)
        w2 == [w1 EXCEPT !.grade = [questions   |-> w1.app.currentQuestions,
                                    userAnswers |-> w1.app.userAnswers,
                                    gradePc     |-> "done",
                                    gradeResult |-> results]]
    IN  IF results.raised THEN w2 ELSE showPage(w2, "results-page")

\* submitQuiz(): when gradeQuiz throws, displayResults is not reached
submitQuiz(w) ==
    LET w1 == clearCurrentState(clearInterval(w))
        results == gradeQuiz(w1.app.currentQuestions, w1.app.userAnswers)
        w2 == [w1 EXCEPT !.grade = [questions   |-> w1.app.currentQuestions,
                                    userAnswers |-> w1.app.userAnswers,
                                    gradePc     |-> "done",
                                    gradeResult |-> results]]
    IN  IF results.raised THEN w2 ELSE showPage(w2, "results-page")

\* timeUp that stops the countdown but submits nothing
timeUpWithoutSubmit(w) == clearCurrentState(clearInterval(w))

\* timeUp()
timeUp(w) == submitQuiz(clearCurrentState(clearInterval(w)))

\* the callback that saves the state at every tick
timerCallbackSavesEveryTick(w) ==
    LET w1 == saveCurrentState([w EXCEPT !.app.timeRemaining = @ - 1])
    IN  IF w1.app.timeRemaining <= 0 THEN timeUp(w1) ELSE w1

\* the callback that calls timeUp only below zero
timerCallbackSubmitsBelowZero(w) ==
    LET w1 == [w EXCEPT !.app.timeRemaining = @ - 1]
        w2 == IF w1.app.timeRemaining % AutoSavePeriod = 0
              THEN saveCurrentState(w1)
              ELSE w1
    IN  IF w2.app.timeRemaining < 0 THEN timeUp(w2) ELSE w2

\* the callback startTimer gives to setInterval
timerCallback(w) ==
    LET w1 == [w EXCEPT !.app.timeRemaining = @ - 1]
        w2 == IF w1.app.timeRemaining % AutoSavePeriod = 0
              THEN saveCurrentState(w1)
              ELSE w1
    IN  IF w2.app.timeRemaining <= 0 THEN timeUp(w2) ELSE w2

\* resetQuizState that keeps the answers
resetQuizStateKeepsAnswers(w) ==
    LET w1 == IF w.app.timer # NoTimer
              THEN [clearInterval(w) EXCEPT !.app.timer = NoTimer]
              ELSE w
    IN  [w1 EXCEPT !.app.currentQuiz = NoQuiz,
                   !.app.currentQuestions = <<>>,
                   !.app.currentQuestionIndex = 0,
                   !.app.timeRemaining = InitialTime]

\* resetQuizState()
resetQuizState(w) ==
    LET w1 == IF w.app.timer # NoTimer
              THEN [clearInterval(w) EXCEPT !.app.timer = NoTimer]
              ELSE w
    IN  [w1 EXCEPT !.app.currentQuiz = NoQuiz,
                   !.app.currentQuestions = <<>>,
                   !.app.currentQuestionIndex = 0,
                   !.app.userAnswers = <<>>,
                   !.app.timeRemaining = InitialTime]

\* goToLandingPage()
goToLandingPage(w) == resetQuizState(showPage(w, "landing-page"))

\* retryCurrentQuiz that keeps the answers of the submitted attempt
retryCurrentQuizKeepsAnswers(w, random) ==
    IF w.app.currentQuiz # NoQuiz
    THEN [initializeNewQuiz(clearCurrentState(w), w.app.currentQuiz, random)
             EXCEPT !.app.userAnswers = w.app.userAnswers]
    ELSE w

\* retryCurrentQuiz()
retryCurrentQuiz(w, random) ==
    IF w.app.currentQuiz # NoQuiz
    THEN initializeNewQuiz(clearCurrentState(w), w.app.currentQuiz, random)
    ELSE w

-----------------------------------------------------------------------------
(* The application in use, from the loading of the page on.  The banks are *)
(* loaded from a server with two quiz files; localStorage holds what an    *)
(* earlier session of the application left.  The user clicks and types     *)
(* where the page lets them, and the running intervals fire.               *)

RECURSIVE LoadQuizFiles(_, _, _)
\* for (const file of quizFiles) await this.loadQuizFile(file)
LoadQuizFiles(self, files, responses) ==
    IF Len(files) = 0
    THEN self
    ELSE LoadQuizFiles(loadQuizFile(self, Head(files), responses[Head(files)]),
                       Tail(files), responses)

\* loadQuizzes(): this after the call
loadQuizzes(self, responses) ==
    IF Len(getQuizFiles(responses)) = 0
    THEN loadSampleQuiz(self, responses[SampleQuizFile])
    ELSE LoadQuizFiles(self, getQuizFiles(responses), responses)

\* a server with a file of two valid questions and a file of one valid
\* and one invalid question
QuizServer ==
    [file \in SourceFiles |->
        IF file = KnownFiles[1]
        THEN Served(JsonText(Arr(<<FirstQuestion, SecondQuestion>>)))
        ELSE IF file = KnownFiles[2]
        THEN Served(JsonText(Arr(<<FirstQuestion, BadQuestion>>)))
        ELSE NotFound]

\* the names of the two banks
FirstQuiz == getQuizTitle(KnownFiles[1])

SecondQuiz == getQuizTitle(KnownFiles[2])

\* the world of a tab whose page has been loaded
LoadedWorld(storage, failure, time) ==
    [app |-> loadQuizzes(QuizApp, QuizServer),
     dom |-> displayQuizList(InitialDocument, loadQuizzes(QuizApp, QuizServer)),
     intervals |-> {},
     localStorage |-> storage, storageFailure |-> failure, now |-> time,
     grade |-> NoGrade]

\* Math.random() such that shuffleArray swaps each element with the first
FirstDraws(bank) ==
    CHOOSE random \in RandomValues(bank) :
        /\ \A i \in DOMAIN random.order : random.order[i] = 0
        /\ \A k \in DOMAIN bank : \A i \in DOMAIN random.options[k] : random.options[k][i] = 0

\* Math.random() such that shuffleArray swaps each element with itself
LastDraws(bank) ==
    CHOOSE random \in RandomValues(bank) :
        /\ \A i \in DOMAIN random.order : random.order[i] = i
        /\ \A k \in DOMAIN bank : \A i \in DOMAIN random.options[k] : random.options[k][i] = i

\* click on the i-th input of the question shown
selectInput(w, i) ==
    IF w.dom.optionInputs[i].type = "radio"
    THEN selectOption(w, w.dom.optionInputs[i].value)
    ELSE selectMultiOption(w, w.dom.optionInputs[i].value, TRUE)

\* an earlier session on this storage: the quiz was begun at the instant,
\* and when `time` seconds remained the first option of the first question
\* was chosen, then the first option of the next question (if there is one)
EarlierWorld(storage, quizName, random, time, instant) ==
    LET begun == initializeNewQuiz(LoadedWorld(storage, "none", instant), quizName, random)
    IN  selectInput(nextQuestion(selectInput([begun EXCEPT !.app.timeRemaining = time], 1)), 1)

\* localStorage as that session left it
EarlierSession(storage, quizName, time, instant) ==
    EarlierWorld(storage, quizName, FirstDraws(loadQuizzes(QuizApp, QuizServer).quizzes[quizName]),
                 time, instant).localStorage

\* the instant the page is loaded at, and the instants of the earlier
\* sessions: more than maxAge before, maxAge before, less than maxAge before
SessionInstant == maxAge + 1

LongBefore == 0

DayBefore == 1

Before == 2

\* an earlier session on this storage, which holds a snapshot of the
\* second quiz: the first quiz was answered, submitted and left for the
\* landing page, the second quiz was started, and at the choice between
\* resuming and restarting the key '1' was pressed
KeyPressedAtPrompt(storage, instant) ==
    LET begun == initializeNewQuiz(LoadedWorld(storage, "none", instant), FirstQuiz,
                                   FirstDraws(loadQuizzes(QuizApp, QuizServer).quizzes[FirstQuiz]))
        left == goToLandingPage(submitQuiz(selectInput(begun, 1)))
    IN  selectInput(startQuiz(left, SecondQuiz,
                              FirstDraws(loadQuizzes(QuizApp, QuizServer).quizzes[SecondQuiz])), 1)

\* localStorage as the page is loaded
EarlierStorages ==
    {EarlierSession(EarlierSession(<<>>, SecondQuiz, MaxTicks, Before),
                    FirstQuiz, AutoSavePeriod + 1, Before),
     MapSet(EarlierSession(<<>>, SecondQuiz, AutoSavePeriod + 1, LongBefore),
            StorageKey(FirstQuiz), NoJsonText),
     EarlierSession(<<>>, FirstQuiz, MaxTicks, DayBefore),
     KeyPressedAtPrompt(EarlierSession(<<>>, SecondQuiz, MaxTicks, LongBefore),
                        Before).localStorage}

Init ==
    /\ server = QuizServer
    /\ app = loadQuizzes(QuizApp, server)
    /\ dom = displayQuizList(InitialDocument, app)
    /\ loadPc = "done"
    /\ quizFiles = <<>>
    /\ intervals = {}
    /\ storageFailure \in {"none", "quota", "denied"}
    /\ localStorage \in EarlierStorages
    /\ now = SessionInstant
    /\ storeCall = NoCall
    /\ lastSaved = <<>>
    /\ otherTab = NoTab
    /\ IdleGrade
    /\ IdleValidate
    /\ IdlePrepare

\* click on the start button of a quiz
StartQuiz(quizName) ==
    /\ dom.page = "landing-page"
    /\ quizName \in dom.quizList
    /\ \E random \in RandomValues(app.quizzes[quizName]) :
          Becomes(startQuiz(World, quizName, random))

\* click on resume-btn
ResumeQuiz ==
    /\ dom.page = "quiz-page"
    /\ dom.resumePrompt
    /\ Becomes(resumeQuiz(World))

\* click on restart-btn
RestartQuiz ==
    /\ dom.page = "quiz-page"
    /\ dom.resumePrompt
    /\ \E random \in RandomValues(app.quizzes[app.currentQuiz]) :
          Becomes(restartQuiz(World, random))

\* click on a radio option of the question shown
SelectOption ==
    /\ dom.page = "quiz-page"
    /\ ~dom.resumePrompt
    /\ \E i \in DOMAIN dom.optionInputs :
          /\ dom.optionInputs[i].type = "radio"
          /\ Becomes(selectOption(World, dom.optionInputs[i].value))

\* click on a checkbox option of the question shown
SelectMultiOption ==
    /\ dom.page = "quiz-page"
    /\ ~dom.resumePrompt
    /\ \E i \in DOMAIN dom.optionInputs, isChecked \in BOOLEAN :
          /\ dom.optionInputs[i].type = "checkbox"
          /\ Becomes(selectMultiOption(World, dom.optionInputs[i].value, isChecked))

\* keydown of '1'..'5' while the quiz page is active
KeyDownDigit ==
    /\ dom.page = "quiz-page"
    /\ \E i \in DOMAIN dom.optionInputs :
          /\ i <= 5
          /\ IF dom.optionInputs[i].type = "radio"
             THEN Becomes(selectOption(World, dom.optionInputs[i].value))
             ELSE \E isChecked \in BOOLEAN :
                      Becomes(selectMultiOption(World, dom.optionInputs[i].value, isChecked))

\* click on prev-btn, or keydown of ArrowLeft while the quiz page is active
PreviousQuestion ==
    /\ dom.page = "quiz-page"
    /\ Becomes(previousQuestion(World))

\* click on next-btn, or keydown of ArrowRight while the quiz page is active
NextQuestion ==
    /\ dom.page = "quiz-page"
    /\ Becomes(nextQuestion(World))

\* click on submit-btn, confirmed
ConfirmSubmitQuiz ==
    /\ dom.page = "quiz-page"
    /\ ~dom.resumePrompt
    /\ Becomes(submitQuiz(World))

\* click on back-to-home
GoToLandingPage ==
    /\ dom.page = "results-page"
    /\ Becomes(goToLandingPage(World))

\* click on retry-quiz
RetryCurrentQuiz ==
    /\ dom.page = "results-page"
    /\ \E random \in RandomValues(app.quizzes[app.currentQuiz]) :
          Becomes(retryCurrentQuiz(World, random))

\* the countdown is followed near its start, near an automatic save and
\* near its end
TickFollowed(timeRemaining) ==
    \/ timeRemaining > InitialTime - MaxTicks
    \/ timeRemaining <= AutoSavePeriod + 1 /\ timeRemaining > AutoSavePeriod + 1 - MaxTicks
    \/ timeRemaining <= MaxTicks /\ timeRemaining > -MaxTicks

\* a running interval fires
TimerInterval ==
    /\ intervals # {}
    /\ TickFollowed(app.timeRemaining)
    /\ Becomes(timerCallback(World))

Next ==
    \/ \E quizName \in DOMAIN app.quizzes : StartQuiz(quizName)
    \/ ResumeQuiz
    \/ RestartQuiz
    \/ SelectOption
    \/ SelectMultiOption
    \/ KeyDownDigit
    \/ PreviousQuestion
    \/ NextQuestion
    \/ ConfirmSubmitQuiz
    \/ GoToLandingPage
    \/ RetryCurrentQuiz
    \/ TimerInterval

Spec == Init /\ [][Next]_vars

-----------------------------------------------------------------------------
(* The session store in use over more than a day: the states of attempts   *)
(* are saved, loaded and cleared while the date advances.                  *)

\* the instants Date.now() is read at
ClockInstants == {LongBefore, maxAge - 1, maxAge, SessionInstant}

\* the states of two attempts at a quiz
StatesOf(quizName) ==
    {CurrentState(EarlierWorld(<<>>, quizName,
                               FirstDraws(loadQuizzes(QuizApp, QuizServer).quizzes[quizName]),
                               AutoSavePeriod + 1, LongBefore).app),
     CurrentState(EarlierWorld(<<>>, quizName,
                               LastDraws(loadQuizzes(QuizApp, QuizServer).quizzes[quizName]),
                               MaxTicks, LongBefore).app)}

InitStore ==
    /\ server = QuizServer
    /\ app = loadQuizzes(QuizApp, server)
    /\ dom = displayQuizList(InitialDocument, app)
    /\ loadPc = "done"
    /\ quizFiles = <<>>
    /\ intervals = {}
    /\ storageFailure \in {"none", "quota", "denied"}
    /\ localStorage \in {<<>>,
                         MapSet(EarlierSession(<<>>, SecondQuiz, MaxTicks, LongBefore),
                                StorageKey(FirstQuiz), NoJsonText)}
    /\ now = LongBefore
    /\ storeCall = NoCall
    /\ lastSaved = <<>>
    /\ otherTab = NoTab
    /\ IdleGrade
    /\ IdleValidate
    /\ IdlePrepare

\* saveQuizState(quizName, state) is called
SaveQuizStateCall ==
    \E quizName \in DOMAIN app.quizzes : \E state \in StatesOf(quizName) :
        /\ localStorage' = saveQuizState(localStorage, storageFailure, quizName, state, now)
        /\ storeCall' = [op |-> "save", quizName |-> quizName, time |-> now,
                         before |-> localStorage, returned |-> NoState]
        /\ lastSaved' = IF storageFailure = "none"
                        THEN MapSet(lastSaved, quizName, [state |-> state, time |-> now])
                        ELSE lastSaved
        /\ UNCHANGED <<app, dom, intervals, storageFailure, now, otherTab,
                       loadVars, gradeVars, validateVars, prepareVars>>

\* loadQuizState(quizName) is called
LoadQuizStateCall ==
    \E quizName \in DOMAIN app.quizzes :
        /\ localStorage' = loadQuizState(localStorage, storageFailure, quizName, now).storage
        /\ storeCall' = [op |-> "load", quizName |-> quizName, time |-> now,
                         before |-> localStorage,
                         returned |-> loadQuizState(localStorage, storageFailure, quizName, now).state]
        /\ UNCHANGED <<app, dom, intervals, storageFailure, now, lastSaved, otherTab,
                       loadVars, gradeVars, validateVars, prepareVars>>

\* clearQuizState(quizName) is called
ClearQuizStateCall ==
    \E quizName \in DOMAIN app.quizzes :
        /\ localStorage' = clearQuizState(localStorage, storageFailure, quizName)
        /\ storeCall' = [op |-> "clear", quizName |-> quizName, time |-> now,
                         before |-> localStorage, returned |-> NoState]
        /\ lastSaved' = IF storageFailure # "denied"
                        THEN RemoveItem(lastSaved, quizName)
                        ELSE lastSaved
        /\ UNCHANGED <<app, dom, intervals, storageFailure, now, otherTab,
                       loadVars, gradeVars, validateVars, prepareVars>>

\* time passes
DateAdvances ==
    /\ \E instant \in ClockInstants : instant > now /\ now' = instant
    /\ UNCHANGED <<app, dom, intervals, localStorage, storageFailure, storeCall,
                   lastSaved, otherTab, loadVars, gradeVars, validateVars, prepareVars>>

NextStore ==
    \/ SaveQuizStateCall
    \/ LoadQuizStateCall
    \/ ClearQuizStateCall
    \/ DateAdvances

SpecStore == InitStore /\ [][NextStore]_vars

-----------------------------------------------------------------------------
(* Two tabs of the application on one localStorage, both in an attempt at  *)
(* the first quiz: the user answers and moves in either.                   *)

\* the world of the other tab
OtherWorld ==
    [app |-> otherTab.app, dom |-> otherTab.dom, intervals |-> otherTab.intervals,
     localStorage |-> localStorage, storageFailure |-> storageFailure, now |-> now,
     grade |-> NoGrade]

\* a tab that has begun the first quiz
BegunWorld(random) == initializeNewQuiz(LoadedWorld(<<>>, "none", LongBefore), FirstQuiz, random)

InitTabs ==
    /\ server = QuizServer
    /\ loadPc = "done"
    /\ quizFiles = <<>>
    /\ app = BegunWorld(FirstDraws(loadQuizzes(QuizApp, QuizServer).quizzes[FirstQuiz])).app
    /\ dom = BegunWorld(FirstDraws(loadQuizzes(QuizApp, QuizServer).quizzes[FirstQuiz])).dom
    /\ intervals = BegunWorld(FirstDraws(loadQuizzes(QuizApp, QuizServer).quizzes[FirstQuiz])).intervals
    /\ otherTab = [open |-> TRUE,
                   app |-> BegunWorld(LastDraws(loadQuizzes(QuizApp, QuizServer).quizzes[FirstQuiz])).app,
                   dom |-> BegunWorld(LastDraws(loadQuizzes(QuizApp, QuizServer).quizzes[FirstQuiz])).dom,
                   intervals |-> BegunWorld(LastDraws(loadQuizzes(QuizApp, QuizServer).quizzes[FirstQuiz])).intervals]
    /\ storageFailure \in {"none", "quota"}
    /\ localStorage = <<>>
    /\ now = LongBefore
    /\ storeCall = NoCall
    /\ lastSaved = <<>>
    /\ IdleGrade
    /\ IdleValidate
    /\ IdlePrepare

\* the tab's part of the next state is w, after a handler that has called
\* saveCurrentState in an attempt with time left
BecomesSaved(w) ==
    /\ app' = w.app
    /\ dom' = w.dom
    /\ intervals' = w.intervals
    /\ localStorage' = w.localStorage
    /\ lastSaved' = IF storageFailure = "none"
                    THEN MapSet(lastSaved, w.app.currentQuiz,
                                [state |-> CurrentState(w.app), time |-> now])
                    ELSE lastSaved
    /\ UNCHANGED <<otherTab, storageFailure, now, storeCall, loadVars, gradeVars, validateVars, prepareVars>>

\* the other tab's part of the next state is w, after such a handler
OtherBecomesSaved(w) ==
    /\ otherTab' = [open |-> TRUE, app |-> w.app, dom |-> w.dom, intervals |-> w.intervals]
    /\ localStorage' = w.localStorage
    /\ lastSaved' = IF storageFailure = "none"
                    THEN MapSet(lastSaved, w.app.currentQuiz,
                                [state |-> CurrentState(w.app), time |-> now])
                    ELSE lastSaved
    /\ UNCHANGED <<app, dom, intervals, storageFailure, now, storeCall,
                   loadVars, gradeVars, validateVars, prepareVars>>

\* click on an option of the question shown in the tab
TabSelects ==
    \E i \in DOMAIN dom.optionInputs :
        IF dom.optionInputs[i].type = "radio"
        THEN BecomesSaved(selectOption(World, dom.optionInputs[i].value))
        ELSE \E isChecked \in BOOLEAN :
                 BecomesSaved(selectMultiOption(World, dom.optionInputs[i].value, isChecked))

\* click on next-btn in the tab
TabNextQuestion ==
    /\ app' = nextQuestion(World).app
    /\ dom' = nextQuestion(World).dom
    /\ UNCHANGED <<intervals, otherTab, storeVars, storeCall, lastSaved,
                   loadVars, gradeVars, validateVars, prepareVars>>

\* click on an option of the question shown in the other tab
OtherTabSelects ==
    \E i \in DOMAIN otherTab.dom.optionInputs :
        IF otherTab.dom.optionInputs[i].type = "radio"
        THEN OtherBecomesSaved(selectOption(OtherWorld, otherTab.dom.optionInputs[i].value))
        ELSE \E isChecked \in BOOLEAN :
                 OtherBecomesSaved(selectMultiOption(OtherWorld, otherTab.dom.optionInputs[i].value,
                                                     isChecked))

\* click on next-btn in the other tab
OtherTabNextQuestion ==
    /\ otherTab' = [otherTab EXCEPT !.app = nextQuestion(OtherWorld).app,
                                    !.dom = nextQuestion(OtherWorld).dom]
    /\ UNCHANGED <<app, dom, intervals, storeVars, storeCall, lastSaved,
                   loadVars, gradeVars, validateVars, prepareVars>>

NextTabs ==
    \/ TabSelects
    \/ TabNextQuestion
    \/ OtherTabSelects
    \/ OtherTabNextQuestion

SpecTabs == InitTabs /\ [][NextTabs]_vars

-----------------------------------------------------------------------------
(* Properties of the session store and of the beginning of an attempt.     *)

\* loadQuizState has been called while localStorage can be read
Loading == storeCall.op = "load" /\ storageFailure # "denied"

\* the entry of the quiz of the last call, before the call
EntryBefore == storeCall.before[StorageKey(storeCall.quizName)]

\* there was an entry that is a snapshot
SnapshotBefore ==
    /\ StorageKey(storeCall.quizName) \in DOMAIN storeCall.before
    /\ EntryBefore.json

\* now - timestamp of that snapshot at the call
AgeBefore == storeCall.time - JsonParse(EntryBefore).timestamp

\* the call returned nothing and left localStorage as it was
AbsentAndKept == storeCall.returned = NoState /\ localStorage = storeCall.before

\* the call returned nothing and deleted the entry
AbsentAndDeleted ==
    /\ storeCall.returned = NoState
    /\ localStorage = RemoveItem(storeCall.before, StorageKey(storeCall.quizName))

\* the call returned the snapshot and left it in localStorage
ReturnedIntact ==
    /\ storeCall.returned = JsonParse(EntryBefore)
    /\ localStorage = storeCall.before

\* C14, as stated: loadQuizState returns absent if there is no entry for
\* the quiz, or if now - timestamp > 24 hours, and then the entry is
\* deleted; an entry whose age is not greater than 24 hours is returned
\* intact and left in the store.
C14_ExpiresAfterMaxAge ==
    Loading =>
        /\ StorageKey(storeCall.quizName) \notin DOMAIN storeCall.before => AbsentAndKept
        /\ (SnapshotBefore /\ AgeBefore > maxAge) => AbsentAndDeleted
        /\ (SnapshotBefore /\ AgeBefore <= maxAge) => ReturnedIntact

\* C14, amended: loadQuizState returns absent if there is no entry for the
\* quiz, or if now - timestamp >= 24 hours, and then the entry is deleted;
\* an entry whose age is less than 24 hours is returned intact and left in
\* the store.
C14_ExpiresAtMaxAge ==
    Loading =>
        /\ StorageKey(storeCall.quizName) \notin DOMAIN storeCall.before => AbsentAndKept
        /\ (SnapshotBefore /\ AgeBefore >= maxAge) => AbsentAndDeleted
        /\ (SnapshotBefore /\ AgeBefore < maxAge) => ReturnedIntact

C14_Witness ==
    /\ Loading
    /\ SnapshotBefore
    /\ AgeBefore = maxAge
    /\ AbsentAndDeleted
    /\ StorageKey(storeCall.quizName) \notin DOMAIN localStorage

\* a snapshot one millisecond short of 24 hours is loaded
C14_FreshLoaded == Loading /\ SnapshotBefore /\ AgeBefore = maxAge - 1 /\ ReturnedIntact

\* an attempt is in progress: the question page without the prompt, and
\* the countdown running
InProgress ==
    /\ dom.page = "quiz-page"
    /\ ~dom.resumePrompt
    /\ app.currentQuiz # NoQuiz
    /\ app.timer \in intervals

\* the step leaves the attempt as it is, but for the answers
AttemptKept ==
    /\ dom'.page = "quiz-page"
    /\ ~dom'.resumePrompt
    /\ app'.currentQuiz = app.currentQuiz
    /\ app'.timer = app.timer
    /\ intervals' = intervals
    /\ app'.currentQuestions = app.currentQuestions
    /\ app'.currentQuestionIndex = app.currentQuestionIndex

\* the step is an answer given in the attempt
Answers == InProgress /\ app'.userAnswers # app.userAnswers

\* the step is an automatic save of the countdown
AutoSaves ==
    /\ InProgress
    /\ app'.timeRemaining = app.timeRemaining - 1
    /\ app'.timeRemaining > 0
    /\ app'.timeRemaining % AutoSavePeriod = 0

\* the step is a click on the start button of a quiz whose state cannot be
\* loaded
StartsUnloadable ==
    /\ dom.page = "landing-page"
    /\ dom'.page = "quiz-page"
    /\ StorageKey(app'.currentQuiz) \in DOMAIN localStorage
    /\ storageFailure = "denied" \/ ~localStorage[StorageKey(app'.currentQuiz)].json

\* C15: saveQuizState, loadQuizState and clearQuizState never raise when
\* localStorage fails (setItem or getItem throws, the entry does not
\* parse): a failed save leaves localStorage as it was, a failed load
\* returns nothing, so that the quiz begins anew, and after a failed save
\* the attempt is as it was and stays in progress.
C15_StoreFailuresSwallowed ==
    [][/\ (storageFailure # "none" /\ Answers) =>
              /\ localStorage' = localStorage
              /\ AttemptKept
              /\ app'.timeRemaining = app.timeRemaining
       /\ (storageFailure # "none" /\ AutoSaves) =>
              /\ localStorage' = localStorage
              /\ AttemptKept
              /\ app'.userAnswers = app.userAnswers
       /\ StartsUnloadable =>
              /\ localStorage' = localStorage
              /\ InProgress'
              /\ app'.savedState = NoState
              /\ app'.userAnswers = <<>>
              /\ app'.timeRemaining = InitialTime]_vars

C15_Witness ==
    /\ storageFailure = "quota"
    /\ InProgress
    /\ DOMAIN app.userAnswers # {}
    /\ StorageKey(app.currentQuiz) \in DOMAIN localStorage
    /\ ~localStorage[StorageKey(app.currentQuiz)].json

\* the last call loaded a quiz whose state was saved less than 24 hours
\* before and not cleared since
LoadsSaved ==
    /\ storeCall.op = "load"
    /\ storageFailure = "none"
    /\ storeCall.quizName \in DOMAIN lastSaved
    /\ storeCall.time - lastSaved[storeCall.quizName].time < maxAge

\* C16: a save that succeeded, followed by a load of the same quiz within
\* 24 hours, returns a snapshot whose questions (with the order of their
\* options), current index, answers and remaining seconds are the saved
\* ones.
C16_SaveLoadRoundTrip ==
    LoadsSaved =>
        /\ storeCall.returned # NoState
        /\ storeCall.returned.questions = lastSaved[storeCall.quizName].state.questions
        /\ storeCall.returned.currentQuestionIndex =
               lastSaved[storeCall.quizName].state.currentQuestionIndex
        /\ storeCall.returned.userAnswers = lastSaved[storeCall.quizName].state.userAnswers
        /\ storeCall.returned.timeRemaining = lastSaved[storeCall.quizName].state.timeRemaining

C16_Witness ==
    /\ LoadsSaved
    /\ storeCall.time - lastSaved[storeCall.quizName].time = maxAge - 1
    /\ storeCall.returned # NoState
    /\ Len(storeCall.returned.questions) > 1
    /\ storeCall.returned.currentQuestionIndex = 1
    /\ DOMAIN storeCall.returned.userAnswers = {1, 2}
    /\ storeCall.returned.timeRemaining = AutoSavePeriod + 1

\* C17: each save that succeeds replaces the whole snapshot under the key
\* of the quiz: when two attempts at one quiz save in turn on one
\* localStorage, the entry is at every moment the complete snapshot of the
\* attempt that saved last (its questions, index, answers and remaining
\* time), never a mixture of the two.
C17_LastSaveReplacesSnapshot ==
    \A quizName \in DOMAIN lastSaved :
        /\ StorageKey(quizName) \in DOMAIN localStorage
        /\ localStorage[StorageKey(quizName)] =
               JsonStringify(lastSaved[quizName].state, lastSaved[quizName].time)
        /\ \/ lastSaved[quizName].state.questions = app.currentQuestions
           \/ lastSaved[quizName].state.questions = otherTab.app.currentQuestions

C17_Witness ==
    /\ otherTab.open
    /\ app.currentQuiz = otherTab.app.currentQuiz
    /\ DOMAIN app.userAnswers # {}
    /\ app.userAnswers # otherTab.app.userAnswers
    /\ app.currentQuestions # otherTab.app.currentQuestions
    /\ app.currentQuiz \in DOMAIN lastSaved
    /\ lastSaved[app.currentQuiz].state = CurrentState(otherTab.app)
    /\ JsonParse(localStorage[StorageKey(app.currentQuiz)]).userAnswers = otherTab.app.userAnswers

\* the step is a click on the start button of a quiz
Starts == dom.page = "landing-page" /\ dom'.page = "quiz-page"

\* the question lists initializeNewQuiz can draw for a quiz
FreshQuestions(quizName) ==
    {initializeNewQuiz(LoadedWorld(<<>>, "none", LongBefore), quizName, random).app.currentQuestions :
        random \in RandomValues(app.quizzes[quizName])}

\* C18: startQuiz(quizName) comes to the choice between resuming and
\* restarting if and only if loadQuizState(quizName) returns a snapshot
\* that has not expired, and there the countdown is not running; otherwise
\* it goes to an attempt in progress with a newly shuffled question list,
\* index 0, no answers, 3600 seconds left and the countdown running.
C18_StartPromptsIffSnapshot ==
    [][Starts =>
         /\ dom'.resumePrompt <=>
                loadQuizState(localStorage, storageFailure, app'.currentQuiz, now).state # NoState
         /\ dom'.resumePrompt =>
                /\ intervals' = {}
                /\ app'.savedState =
                       loadQuizState(localStorage, storageFailure, app'.currentQuiz, now).state
         /\ ~dom'.resumePrompt =>
                /\ InProgress'
                /\ intervals' = {app'.timer}
                /\ app'.currentQuestions \in FreshQuestions(app'.currentQuiz)
                /\ app'.currentQuestionIndex = 0
                /\ app'.userAnswers = <<>>
                /\ app'.timeRemaining = InitialTime]_vars

C18_Witness ==
    /\ dom.page = "quiz-page"
    /\ dom.resumePrompt
    /\ intervals = {}
    /\ app.savedState # NoState
    /\ app.currentQuestions = <<>>
    /\ StorageKey(app.currentQuiz) \in DOMAIN localStorage

\* a quiz whose snapshot is 24 hours old has been begun anew
C18_BegunAnew ==
    /\ InProgress
    /\ app.currentQuiz = FirstQuiz
    /\ app.timeRemaining = InitialTime
    /\ app.userAnswers = <<>>
    /\ localStorage = <<>>

\* the step leaves the choice between resuming and restarting
LeavesPrompt == dom.page = "quiz-page" /\ dom.resumePrompt /\ ~dom'.resumePrompt

\* the step is a click on resume-btn: resumeQuiz forgets the state it has
\* taken up, restartQuiz keeps it
Resumes == LeavesPrompt /\ app'.savedState = NoState

\* the step is a click on restart-btn
Restarts == LeavesPrompt /\ app'.savedState # NoState

\* C19: resumeQuiz, at the choice, puts the attempt in progress with the
\* questions and the option orders, the index, the answers and the
\* remaining seconds of the saved snapshot, and starts the countdown from
\* that remaining time.
C19_ResumeRestoresSnapshot ==
    [][Resumes =>
         /\ InProgress'
         /\ intervals' = {app'.timer}
         /\ app'.currentQuiz = app.currentQuiz
         /\ app'.currentQuestions = app.savedState.questions
         /\ app'.currentQuestionIndex = app.savedState.currentQuestionIndex
         /\ app'.userAnswers = app.savedState.userAnswers
         /\ app'.timeRemaining = app.savedState.timeRemaining
         /\ localStorage' = localStorage]_vars

C19_Witness ==
    /\ InProgress
    /\ app.savedState = NoState
    /\ app.timeRemaining = AutoSavePeriod + 1
    /\ app.currentQuestionIndex = 1
    /\ DOMAIN app.userAnswers = {1, 2}
    /\ CurrentState(app).questions =
           JsonParse(localStorage[StorageKey(app.currentQuiz)]).questions
    /\ JsonParse(localStorage[StorageKey(app.currentQuiz)]).timestamp = Before

\* C20: restartQuiz, at the choice, removes the saved snapshot of the quiz
\* and then does what a new start does: the attempt is in progress with
\* index 0, no answers and 3600 seconds left, and localStorage holds no
\* snapshot of the quiz until the next save.
C20_RestartClearsAndBeginsAnew ==
    [][/\ Restarts =>
              /\ InProgress'
              /\ intervals' = {app'.timer}
              /\ app'.currentQuiz = app.currentQuiz
              /\ app'.currentQuestions \in FreshQuestions(app.currentQuiz)
              /\ app'.currentQuestionIndex = 0
              /\ app'.userAnswers = <<>>
              /\ app'.timeRemaining = InitialTime
              /\ localStorage' = RemoveItem(localStorage, StorageKey(app.currentQuiz))
       /\ \A quizName \in DOMAIN app.quizzes :
              (/\ StorageKey(quizName) \notin DOMAIN localStorage
               /\ StorageKey(quizName) \in DOMAIN localStorage') =>
                  /\ quizName = app'.currentQuiz
                  /\ localStorage'[StorageKey(quizName)] = JsonStringify(CurrentState(app'), now)]_vars

C20_Witness ==
    /\ InProgress
    /\ app.savedState # NoState
    /\ app.currentQuestionIndex = 0
    /\ app.userAnswers = <<>>
    /\ app.timeRemaining = InitialTime
    /\ StorageKey(app.currentQuiz) \notin DOMAIN localStorage

-----------------------------------------------------------------------------
(* Properties of an attempt in progress and of its end.                    *)

\* the entry of the current quiz is the snapshot of the attempt as it is
\* after the step
SavedAfter ==
    /\ StorageKey(app'.currentQuiz) \in DOMAIN localStorage'
    /\ localStorage'[StorageKey(app'.currentQuiz)] = JsonStringify(CurrentState(app'), now)

\* C21: every answer given in an attempt in progress (a single selection
\* or the toggle of an option of a multi-answer question) is recorded in
\* the answers and saved within the same handler, before anything else
\* runs: when the save succeeds, the answers of the snapshot in
\* localStorage are the answers in memory.
C21_AnswerSavedAtOnce ==
    [][Answers =>
         /\ AttemptKept
         /\ app'.timeRemaining = app.timeRemaining
         /\ app.currentQuestionIndex + 1 \in DOMAIN app'.userAnswers
         /\ \A k \in DOMAIN app'.userAnswers \ {app.currentQuestionIndex + 1} :
                k \in DOMAIN app.userAnswers /\ app'.userAnswers[k] = app.userAnswers[k]
         /\ storageFailure = "none" =>
                /\ SavedAfter
                /\ JsonParse(localStorage'[StorageKey(app'.currentQuiz)]).userAnswers =
                       app'.userAnswers]_vars

C21_Witness ==
    /\ InProgress
    /\ storageFailure = "none"
    /\ DOMAIN app.userAnswers = {1, 2}
    /\ app.userAnswers[app.currentQuestionIndex + 1].t = "array"
    /\ Len(app.userAnswers[app.currentQuestionIndex + 1].items) = 2
    /\ JsonParse(localStorage[StorageKey(app.currentQuiz)]).userAnswers = app.userAnswers
    /\ JsonParse(localStorage[StorageKey(app.currentQuiz)]).timestamp = SessionInstant

\* the current index is the index of a question of the attempt
IndexWithinQuestions ==
    /\ 0 <= app.currentQuestionIndex
    /\ app.currentQuestionIndex < Len(app.currentQuestions)

\* the step leaves the attempt as it is, but for the index
OnlyIndexChanges ==
    /\ InProgress'
    /\ app'.currentQuiz = app.currentQuiz
    /\ app'.timer = app.timer
    /\ intervals' = intervals
    /\ app'.currentQuestions = app.currentQuestions
    /\ app'.userAnswers = app.userAnswers
    /\ app'.timeRemaining = app.timeRemaining
    /\ localStorage' = localStorage

\* C22: while an attempt is in progress, 0 <= currentQuestionIndex <
\* number of questions, whatever was done before; previousQuestion at
\* index 0 and nextQuestion at the last index leave the index (and all
\* else) as it is, and otherwise they move the index by exactly one.
C22_IndexWithinQuestions ==
    [][/\ InProgress' => IndexWithinQuestions'
       /\ InProgress =>
              /\ app.currentQuestionIndex = 0 => previousQuestion(World) = World
              /\ app.currentQuestionIndex > 0 =>
                     previousQuestion(World).app.currentQuestionIndex =
                         app.currentQuestionIndex - 1
              /\ app.currentQuestionIndex = Len(app.currentQuestions) - 1 =>
                     nextQuestion(World) = World
              /\ app.currentQuestionIndex < Len(app.currentQuestions) - 1 =>
                     nextQuestion(World).app.currentQuestionIndex =
                         app.currentQuestionIndex + 1
       /\ (InProgress /\ app'.currentQuestionIndex # app.currentQuestionIndex) =>
              /\ OnlyIndexChanges
              /\ \/ app'.currentQuestionIndex = app.currentQuestionIndex + 1
                 \/ app'.currentQuestionIndex = app.currentQuestionIndex - 1]_vars

\* the same for the attempts that have questions
C22_IndexWithinQuestionsIfAny ==
    [][/\ (InProgress' /\ Len(app'.currentQuestions) > 0) => IndexWithinQuestions'
       /\ InProgress =>
              /\ app.currentQuestionIndex = 0 => previousQuestion(World) = World
              /\ app.currentQuestionIndex > 0 =>
                     previousQuestion(World).app.currentQuestionIndex =
                         app.currentQuestionIndex - 1
              /\ app.currentQuestionIndex = Len(app.currentQuestions) - 1 =>
                     nextQuestion(World) = World
              /\ app.currentQuestionIndex < Len(app.currentQuestions) - 1 =>
                     nextQuestion(World).app.currentQuestionIndex =
                         app.currentQuestionIndex + 1
       /\ (InProgress /\ app'.currentQuestionIndex # app.currentQuestionIndex) =>
              /\ OnlyIndexChanges
              /\ \/ app'.currentQuestionIndex = app.currentQuestionIndex + 1
                 \/ app'.currentQuestionIndex = app.currentQuestionIndex - 1]_vars

\* an attempt without questions is in progress
C22_NoQuestionInProgress == InProgress /\ Len(app.currentQuestions) = 0

\* the step is a tick of the countdown of the attempt in progress
Ticks == InProgress /\ app'.timeRemaining # app.timeRemaining

\* C23: each tick of an attempt in progress takes exactly 1 from
\* timeRemaining, and the state is saved at exactly the ticks after which
\* timeRemaining % 30 = 0 (with seconds left: the save at 0 is the matter
\* of C36; with a working store: a save that fails is the matter of C15).
C23_TickDecrementsAndAutoSaves ==
    [][Ticks =>
         /\ app'.timeRemaining = app.timeRemaining - 1
         /\ app'.currentQuiz = app.currentQuiz
         /\ app'.currentQuestions = app.currentQuestions
         /\ app'.currentQuestionIndex = app.currentQuestionIndex
         /\ app'.userAnswers = app.userAnswers
         /\ app'.timeRemaining > 0 =>
                /\ InProgress'
                /\ intervals' = intervals
                /\ (app'.timeRemaining % AutoSavePeriod = 0 /\ storageFailure = "none") =>
                       SavedAfter
                /\ (app'.timeRemaining % AutoSavePeriod # 0 \/ storageFailure # "none") =>
                       localStorage' = localStorage]_vars

C23_Witness ==
    /\ InProgress
    /\ storageFailure = "none"
    /\ app.timeRemaining = AutoSavePeriod
    /\ JsonParse(localStorage[StorageKey(app.currentQuiz)]).timeRemaining = AutoSavePeriod
    /\ JsonParse(localStorage[StorageKey(app.currentQuiz)]).timestamp = SessionInstant

\* a tick that saves nothing has been taken
C23_TickWithoutSave ==
    /\ InProgress
    /\ storageFailure = "none"
    /\ app.timeRemaining = InitialTime - 1
    /\ StorageKey(app.currentQuiz) \notin DOMAIN localStorage

\* the attempt is submitted: the results page shows the results of
\* gradeQuiz and no countdown runs
Submitted ==
    /\ dom.page = "results-page"
    /\ gradePc = "done"
    /\ ~gradeResult.raised
    /\ intervals = {}

\* the step grades the questions and the answers of the attempt as they
\* were before it
GradesAttempt ==
    /\ questions' = app.currentQuestions
    /\ userAnswers' = app.userAnswers
    /\ gradeResult' = gradeQuiz(app.currentQuestions, app.userAnswers)

\* after the step localStorage holds no snapshot of the quiz (when it
\* refuses every access, the removal fails as the saves did: C15)
SnapshotRemoved ==
    storageFailure # "denied" =>
        localStorage' = RemoveItem(localStorage, StorageKey(app.currentQuiz))

\* C24: when a tick brings timeRemaining to 0, the attempt is submitted
\* within that tick: the countdown is stopped, the answers as they stand
\* are graded, the attempt is submitted, and no snapshot of the quiz is
\* left in localStorage.
C24_TimeUpSubmits ==
    [][(Ticks /\ app'.timeRemaining <= 0) =>
         /\ app'.timeRemaining = 0
         /\ Submitted'
         /\ GradesAttempt
         /\ SnapshotRemoved]_vars

C24_Witness ==
    /\ Submitted
    /\ app.timeRemaining = 0
    /\ Len(gradeResult.results) = Len(app.currentQuestions)
    /\ userAnswers = app.userAnswers
    /\ DOMAIN userAnswers # {}
    /\ Len(gradeResult.results) > 0
    /\ StorageKey(app.currentQuiz) \notin DOMAIN localStorage

\* the step submits the attempt, by the click on submit-btn or by the
\* countdown
Submits == dom.page = "quiz-page" /\ dom'.page = "results-page"

\* no entry of localStorage is written by the step
NothingWritten ==
    \A key \in DOMAIN localStorage' :
        key \in DOMAIN localStorage /\ localStorage'[key] = localStorage[key]

\* C25: submitQuiz stops the countdown, removes the saved snapshot of the
\* current quiz, grades the current questions against the current answers
\* and shows the results; from then until a new attempt begins no tick
\* changes timeRemaining and no snapshot is written to localStorage.
C25_SubmitStopsClearsGrades ==
    [][/\ Submits =>
              /\ Submitted'
              /\ GradesAttempt
              /\ SnapshotRemoved
              /\ app'.currentQuiz = app.currentQuiz
              /\ app'.timeRemaining \in {app.timeRemaining, app.timeRemaining - 1}
       /\ dom.page # "quiz-page" =>
              /\ intervals = {}
              /\ NothingWritten
              /\ dom'.page # "quiz-page" => app'.timeRemaining \in {app.timeRemaining, InitialTime}
              /\ dom'.page = "results-page" => UNCHANGED <<app, localStorage>>]_vars

C25_Witness ==
    /\ Submitted
    /\ storageFailure = "none"
    /\ app.timeRemaining = InitialTime - 1
    /\ DOMAIN userAnswers = {1, 2}
    /\ Len(gradeResult.results) = 2
    /\ gradeResult.score = 2
    /\ StorageKey(app.currentQuiz) \notin DOMAIN localStorage

\* no attempt is begun: the landing page, nothing of an attempt in memory
\* and no countdown
NotStarted ==
    /\ dom.page = "landing-page"
    /\ intervals = {}
    /\ app.timer = NoTimer
    /\ app.currentQuiz = NoQuiz
    /\ app.currentQuestions = <<>>
    /\ app.currentQuestionIndex = 0
    /\ app.userAnswers = <<>>
    /\ app.timeRemaining = InitialTime

\* after the step a new attempt at the quiz is in progress
BeginsAnew(quizName) ==
    /\ InProgress'
    /\ app'.currentQuiz = quizName
    /\ app'.currentQuestions \in FreshQuestions(quizName)
    /\ app'.currentQuestionIndex = 0
    /\ app'.userAnswers = <<>>
    /\ app'.timeRemaining = InitialTime

\* localStorage holds no snapshot written since the page was loaded
NoSnapshotOfSession ==
    \A key \in DOMAIN localStorage :
        localStorage[key].json => JsonParse(localStorage[key]).timestamp # now

Resets == dom.page = "results-page" /\ dom'.page = "landing-page"

\* resetQuizState, called in this state, stops the countdown, discards the
\* attempt in memory and leaves localStorage as it is; called again it
\* changes nothing
ResetDiscardsAttempt ==
    /\ resetQuizState(World).intervals = intervals \ {app.timer}
    /\ InProgress => resetQuizState(World).intervals = {}
    /\ resetQuizState(World).app.timer = NoTimer
    /\ resetQuizState(World).app.currentQuiz = NoQuiz
    /\ resetQuizState(World).app.currentQuestions = <<>>
    /\ resetQuizState(World).app.currentQuestionIndex = 0
    /\ resetQuizState(World).app.userAnswers = <<>>
    /\ resetQuizState(World).app.timeRemaining = InitialTime
    /\ resetQuizState(World).localStorage = localStorage
    /\ resetQuizState(resetQuizState(World)) = resetQuizState(World)

\* C27: goToLandingPage / resetQuizState returns to the landing page with
\* no attempt begun, stops the countdown, discards the attempt in memory
\* (no current quiz, no questions, index 0, no answers, 3600 seconds) and
\* leaves every snapshot in localStorage as it is; with the countdown
\* already stopped it does the same and raises nothing.
C27_ResetDiscardsAttemptOnly ==
    [][/\ ResetDiscardsAttempt
       /\ Resets =>
              /\ NotStarted'
              /\ localStorage' = localStorage
              /\ UNCHANGED <<app.quizzes, app.validationErrors, app.savedState>>
              /\ goToLandingPage(goToLandingPage(World)) = goToLandingPage(World)]_vars

C27_Witness ==
    /\ NotStarted
    /\ storageFailure = "none"
    /\ localStorage \notin EarlierStorages
    /\ StorageKey(SecondQuiz) \in DOMAIN localStorage
    /\ JsonParse(localStorage[StorageKey(SecondQuiz)]).timestamp = Before

-----------------------------------------------------------------------------
(* The calls of shuffleArray and prepareQuestionForDisplay on their own: the
   argument and the values of Math.random() are drawn at the start, the call
   is made, and a prepared question goes through a snapshot and comes back
   as resumeQuiz reads it. *)

\* the longest array that is shuffled on its own
MaxShuffled == 4

\* [elements...]: arrays of n distinct elements
ShuffledArrays == {Arr([i \in 1..n |-> Str(UpperLetters[i])]) : n \in 0..MaxShuffled}

\* the options of the questions that are prepared: arrays and objects of
\* any keys in any order, an array with one key twice, an object with keys
\* that are upper-case already, and values that are no options
PreparedOptions ==
    {OptionArray(letters) : letters \in DistinctSeqs(Range(UpperKeys))}
        \cup {LegacyOptions(letters) : letters \in DistinctSeqs(Range(LowerKeys))}
        \cup {Arr(<<Opt("A", "alpha"), Opt("A", "beta"), Opt("b", "gamma")>>),
              LegacyOptions(<<"B", "a">>), Undef, Null, Str("AB")}

\* answer_option_text of the questions that are prepared
PreparedExplanations ==
    {Undef, Null, Str("perche"), Arr(<<Pair("0", "perche"), Pair("1", "perche")>>)}
        \cup {KeyedObject(SubSeq(LowerKeys, 1, m)) : m \in 0..NumKeys}

PreparedQuestions ==
    {Question(Str("q1"), options, answer, explanation, Undef) :
        options \in PreparedOptions, answer \in {Undef, Str("b")},
        explanation \in PreparedExplanations}

\* the values Math.random() can return during the call
DrawsFor(arg) ==
    IF IsArray(arg)
    THEN RandomDraws(Len(arg.items))
    ELSE IF Truthy(arg.question_option) /\ TypeOf(arg.question_option) = "object"
    THEN RandomDraws(Len(arg.question_option.items))
    ELSE {<<>>}

\* the snapshot of an attempt with this one question, saved and loaded
\* again: the question resumeQuiz puts in currentQuestions
ResumedQuestion(question) ==
    LET state == [questions            |-> <<question>>,
                  currentQuestionIndex |-> 0,
                  userAnswers          |-> <<>>,
                  timeRemaining        |-> InitialTime]
        saved == saveQuizState(<<>>, "none", FirstQuiz, state, LongBefore)
    IN  loadQuizState(saved, "none", FirstQuiz, LongBefore).state.questions[1]

InitPrepare ==
    /\ prepareArg \in ShuffledArrays \cup PreparedQuestions
    /\ prepareRandom \in DrawsFor(prepareArg)
    /\ preparePc = "called"
    /\ prepareResult = <<>>
    /\ IdleGrade
    /\ IdleValidate
    /\ IdleController

\* shuffleArray(array) returns
ShuffleArrayCall ==
    /\ preparePc = "called"
    /\ IsArray(prepareArg)
    /\ prepareResult' = Arr(shuffleArray(prepareArg.items, prepareRandom))
    /\ preparePc' = "shuffled"
    /\ UNCHANGED <<prepareArg, prepareRandom, gradeVars, validateVars, controllerVars>>

\* prepareQuestionForDisplay(question) returns
PrepareQuestionForDisplayCall ==
    /\ preparePc = "called"
    /\ ~IsArray(prepareArg)
    /\ prepareResult' = prepareQuestionForDisplay(prepareArg, prepareRandom)
    /\ preparePc' = "prepared"
    /\ UNCHANGED <<prepareArg, prepareRandom, gradeVars, validateVars, controllerVars>>

\* the prepared question is saved in a snapshot and resumed from it
PreparedQuestionResumed ==
    /\ preparePc = "prepared"
    /\ prepareResult' = ResumedQuestion(prepareResult)
    /\ preparePc' = "resumed"
    /\ UNCHANGED <<prepareArg, prepareRandom, gradeVars, validateVars, controllerVars>>

NextPrepare ==
    \/ ShuffleArrayCall
    \/ PrepareQuestionForDisplayCall
    \/ PreparedQuestionResumed

SpecPrepare == InitPrepare /\ [][NextPrepare]_vars

-----------------------------------------------------------------------------
(* Properties of the shuffle and of the prepared question. *)

\* the options as an array of { option, option_text }: an array as it is,
\* an object entry by entry with the key in upper case
CanonicalOptions(options) ==
    IF IsArray(options)
    THEN options.items
    ELSE [i \in DOMAIN options.items |->
             [t           |-> "object",
              option      |-> ToUpperCase(options.items[i].option),
              option_text |-> options.items[i].option_text]]

\* a holds the elements of b, each as often as b does
IsPermutationOf(a, b) ==
    /\ Len(a) = Len(b)
    /\ \E p \in [DOMAIN a -> DOMAIN a] :
           /\ \A i, j \in DOMAIN a : p[i] = p[j] => i = j
           /\ \A i \in DOMAIN a : a[i] = b[p[i]]

\* how many of the options have this key
KeyCount(options, key) == Cardinality({i \in DOMAIN options : options[i].option = key})

\* the question had options, as an array or as an object
HasOptions(question) ==
    /\ Truthy(question.question_option)
    /\ TypeOf(question.question_option) = "object"

\* C28: the options of the question prepareQuestionForDisplay returns are
\* an array that is a permutation of the canonical array of the original
\* options (an object entry by entry, key in upper case, text unchanged):
\* every key occurs as often as before, the original options are kept in
\* original_options, and the other properties are those of the question.
C28_OptionsPermuted ==
    (preparePc = "prepared" /\ HasOptions(prepareArg)) =>
        LET canonical == CanonicalOptions(prepareArg.question_option)
            shown     == prepareResult.question_option
        IN  /\ IsArray(shown)
            /\ IsPermutationOf(shown.items, canonical)
            /\ \A k \in {canonical[i].option : i \in DOMAIN canonical}
                          \cup {shown.items[i].option : i \in DOMAIN shown.items} :
                   KeyCount(shown.items, k) = KeyCount(canonical, k)
            /\ prepareResult.original_options = prepareArg.question_option
            /\ \A p \in DOMAIN prepareArg \ {"question_option"} :
                   prepareResult[p] = prepareArg[p]

\* an object of three options was prepared and its options changed places
C28_Witness ==
    /\ preparePc = "prepared"
    /\ prepareArg.question_option.t = "object"
    /\ Len(prepareArg.question_option.items) = 3
    /\ prepareResult.question_option.items[1].option = "C"
    /\ prepareResult.question_option.items # CanonicalOptions(prepareArg.question_option)

\* the arrangements of the elements of xs
PermutationsOf(xs) ==
    {[i \in DOMAIN xs |-> xs[p[i]]] :
        p \in {q \in [DOMAIN xs -> DOMAIN xs] : \A i, j \in DOMAIN xs : q[i] = q[j] => i = j}}

RECURSIVE Factorial(_)
Factorial(n) == IF n <= 1 THEN 1 ELSE n * Factorial(n - 1)

\* C29: for an array of n distinct elements shuffleArray returns a
\* permutation of it; over the sequences of index draws (j in 0..i at step
\* i, n! sequences in all) every one of the n! permutations is returned,
\* and the permutation returned is returned for no other sequence of draws:
\* with draws that are uniform every permutation is equally likely.
C29_EveryPermutationOnce ==
    preparePc = "shuffled" =>
        LET array == prepareArg.items
            draws == RandomDraws(Len(array))
        IN  /\ IsPermutationOf(prepareResult.items, array)
            /\ Cardinality(draws) = Factorial(Len(array))
            /\ Cardinality(PermutationsOf(array)) = Factorial(Len(array))
            /\ {shuffleArray(array, r) : r \in draws} = PermutationsOf(array)
            /\ \A r \in draws :
                   shuffleArray(array, r) = prepareResult.items => r = prepareRandom

\* the longest array was shuffled and came back in the reverse order
C29_Witness ==
    /\ preparePc = "shuffled"
    /\ Len(prepareArg.items) = MaxShuffled
    /\ \A i \in 1..MaxShuffled :
           prepareResult.items[i] = prepareArg.items[MaxShuffled + 1 - i]

\* answer_option_text is there, is an object (or an array) and has more
\* than one entry
SeveralExplanations(question) ==
    /\ question.answer_option_text.t \in {"object", "array"}
    /\ Len(question.answer_option_text.items) > 1

\* C30: isMultiAnswerQuestion holds of a question exactly if its
\* answer_option_text is present, object-shaped and has more than one
\* entry, which (keys being distinct up to case) is exactly if the set of
\* its correct keys has more than one element; and the isMultiAnswer flag
\* of a prepared question, also after it was saved in a snapshot and
\* resumed, is the value isMultiAnswerQuestion gives gradeQuiz for it.
C30_MultiAnswerIffSeveralKeys ==
    preparePc \in {"prepared", "resumed"} =>
        /\ isMultiAnswerQuestion(prepareArg) <=> SeveralExplanations(prepareArg)
        /\ isMultiAnswerQuestion(prepareArg) <=>
               Cardinality(Range(getCorrectAnswers(prepareArg))) > 1
        /\ Truthy(prepareArg.question_option) =>
               /\ prepareResult.isMultiAnswer = isMultiAnswerQuestion(prepareArg)
               /\ prepareResult.isMultiAnswer = isMultiAnswerQuestion(prepareResult)
               /\ getCorrectAnswers(prepareResult) = getCorrectAnswers(prepareArg)

\* a question with two explained keys was prepared, saved and resumed, and
\* carries the flag
C30_Witness ==
    /\ preparePc = "resumed"
    /\ Len(getCorrectAnswers(prepareArg)) = 2
    /\ prepareResult.question_option.t = "array"
    /\ prepareResult.isMultiAnswer

\* the same of the questions of the controller's attempt, new or resumed
C30_FlagInAttempt ==
    \A i \in DOMAIN app.currentQuestions :
        app.currentQuestions[i].isMultiAnswer = isMultiAnswerQuestion(app.currentQuestions[i])

-----------------------------------------------------------------------------
(* Invariants of the answers, the countdown and the snapshots. *)

\* C31: no value of userAnswers is an empty collection: a multi-answer
\* question no option of which is selected (also after every checked
\* option was unchecked again) has no entry.
C31_NoEmptySelection ==
    \A k \in DOMAIN app.userAnswers : app.userAnswers[k] # Arr(<<>>)

\* the same of the one step that unchecks the only checked option of a
\* multi-answer question: the entry it leaves is not the empty array
C31_EmptiedSelection ==
    [][(/\ InProgress
        /\ (app.currentQuestionIndex + 1) \in DOMAIN app.userAnswers
        /\ IsArray(app.userAnswers[app.currentQuestionIndex + 1])
        /\ Len(app.userAnswers[app.currentQuestionIndex + 1].items) = 1
        /\ app'.userAnswers # app.userAnswers
        /\ (app.currentQuestionIndex + 1) \in DOMAIN app'.userAnswers)
           => app'.userAnswers[app.currentQuestionIndex + 1] # Arr(<<>>)]_vars

\* every key of userAnswers is the index of a question of the attempt
\* (the entry of the question of index i is userAnswers[i + 1])
AnswerKeysValid ==
    \A k \in DOMAIN app.userAnswers : 0 <= k - 1 /\ k - 1 < Len(app.currentQuestions)

\* the step changes the entry of the current question and nothing else of
\* the attempt
OnlyCurrentEntryChanges ==
    /\ AttemptKept
    /\ app'.timeRemaining = app.timeRemaining
    /\ DOMAIN app'.userAnswers = DOMAIN app.userAnswers \cup {app.currentQuestionIndex + 1}
    /\ \A k \in DOMAIN app.userAnswers \ {app.currentQuestionIndex + 1} :
           app'.userAnswers[k] = app.userAnswers[k]

\* C32: while an attempt is in progress every key of userAnswers is a
\* valid question index of the attempt (0 <= key < number of questions),
\* and an answer changes only the entry of the current question: the
\* other entries, the current index and the remaining time stay.
C32_AnswerKeysValid ==
    [][/\ InProgress' => AnswerKeysValid'
       /\ Answers => OnlyCurrentEntryChanges]_vars

\* the same for the attempts that have questions
C32_AnswerKeysValidIfAny ==
    [][/\ (InProgress' /\ Len(app'.currentQuestions) > 0) => AnswerKeysValid'
       /\ Answers => OnlyCurrentEntryChanges]_vars

\* C33: timeRemaining is never below 0, in new and in resumed attempts:
\* the tick that reaches 0 stops the countdown, so that no interval is left
\* that could decrement it further.
C33_RemainingNeverNegative ==
    /\ app.timeRemaining >= 0
    /\ app.timeRemaining = 0 => intervals = {}
    /\ app.savedState # NoState => app.savedState.timeRemaining >= 0

\* a resumed attempt was counted down to 0
C33_Witness ==
    /\ app.timeRemaining = 0
    /\ app.currentQuiz # NoQuiz
    /\ dom.page = "results-page"
    /\ gradePc = "done"

\* C34: from the step an attempt comes to be in progress until it is
\* submitted or reset, no answer, navigation, tick or save changes the
\* questions of the attempt, their order or the order of their options;
\* a snapshot that is saved meanwhile holds the same questions.
C34_QuestionsFixed ==
    [][InProgress =>
          /\ app'.currentQuestions = app.currentQuestions
          /\ app'.currentQuiz = app.currentQuiz
          /\ InProgress' \/ dom'.page = "results-page"
          /\ (localStorage' # localStorage /\ StorageKey(app.currentQuiz) \in DOMAIN localStorage') =>
                 JsonParse(localStorage'[StorageKey(app.currentQuiz)]).questions =
                     JsonParse(JsonStringify(CurrentState(app), now)).questions]_vars

\* an attempt of two questions is in progress at its second question, with
\* an answer given and a tick counted
C34_Witness ==
    /\ InProgress
    /\ Len(app.currentQuestions) = 2
    /\ app.currentQuestionIndex = 1
    /\ DOMAIN app.userAnswers # {}
    /\ app.timeRemaining = InitialTime - 1
    /\ StorageKey(app.currentQuiz) \in DOMAIN localStorage

\* C35: at most one countdown runs at any time, and it is the one
\* this.timer names: whatever starts a countdown (start, resume, restart,
\* retry) does so when none is running, so that timeRemaining goes down by
\* at most 1 in a tick period.
C35_OneCountdown ==
    [][/\ Cardinality(intervals') <= 1
       /\ intervals' \subseteq {app'.timer}
       /\ ~(intervals' \subseteq intervals) => intervals = {}
       /\ (intervals # {} /\ intervals' = intervals) =>
              app'.timeRemaining >= app.timeRemaining - 1]_vars

\* a resumed attempt is in progress and its one countdown has ticked
C35_Witness ==
    /\ InProgress
    /\ intervals = {app.timer}
    /\ app.timeRemaining = AutoSavePeriod
    /\ Len(app.currentQuestions) > 0

\* every snapshot of this store holds at least one second
SnapshotsHoldTime(storage) ==
    \A key \in DOMAIN storage :
        storage[key].json => JsonParse(storage[key]).timeRemaining >= 1

\* C36: no snapshot with timeRemaining <= 0 is ever written: in the tick
\* that reaches 0 saveCurrentState writes nothing, every snapshot in
\* localStorage holds at least 1 second, and an attempt that is resumed
\* starts with timeRemaining >= 1.
C36_NoSnapshotWithoutTime ==
    [][/\ SnapshotsHoldTime(localStorage) /\ SnapshotsHoldTime(localStorage')
       /\ (InProgress /\ app.timeRemaining = 1) =>
              saveCurrentState([World EXCEPT !.app.timeRemaining = 0]).localStorage = localStorage
       /\ Resumes => app'.timeRemaining >= 1]_vars

\* an attempt resumed from a snapshot of an earlier session has one second
\* left
C36_Witness ==
    /\ InProgress
    /\ app.timeRemaining = 1
    /\ StorageKey(app.currentQuiz) \in DOMAIN localStorage
    /\ JsonParse(localStorage[StorageKey(app.currentQuiz)]).timestamp < SessionInstant
    /\ JsonParse(localStorage[StorageKey(app.currentQuiz)]).timeRemaining >= 1

\* the entry of the current quiz is a snapshot
SnapshotOfAttempt ==
    /\ StorageKey(app.currentQuiz) \in DOMAIN localStorage
    /\ localStorage[StorageKey(app.currentQuiz)].json

\* C37: while an attempt is in progress and saves succeed, a snapshot of
\* the quiz in localStorage holds a timeRemaining that is at least the one
\* in memory and at most 29 (AutoSavePeriod - 1) more.
C37_SnapshotTimeClose ==
    (InProgress /\ storageFailure = "none" /\ SnapshotOfAttempt) =>
        LET saved == JsonParse(localStorage[StorageKey(app.currentQuiz)]).timeRemaining
        IN  /\ saved >= app.timeRemaining
            /\ saved - app.timeRemaining <= AutoSavePeriod - 1

\* the entries the step wrote
Written == {key \in DOMAIN localStorage' :
               key \notin DOMAIN localStorage \/ localStorage'[key] # localStorage[key]}

\* C38: every snapshot the controller writes is the snapshot of an attempt
\* in progress, with a question list that is not empty and a current
\* index within it; none is written while the resume prompt is shown.
C38_SnapshotsOfAttempts ==
    [][\A key \in Written :
           /\ InProgress
           /\ ~dom.resumePrompt
           /\ Len(JsonParse(localStorage'[key]).questions) > 0
           /\ 0 <= JsonParse(localStorage'[key]).currentQuestionIndex
           /\ JsonParse(localStorage'[key]).currentQuestionIndex <
                  Len(JsonParse(localStorage'[key]).questions)]_vars

\* the same of the steps that are taken while no prompt is shown, in the
\* attempts that have questions
C38_SnapshotsOfAttemptsOffPrompt ==
    [][\A key \in Written :
           (~dom.resumePrompt /\ Len(app.currentQuestions) > 0) =>
               /\ InProgress
               /\ Len(JsonParse(localStorage'[key]).questions) > 0
               /\ 0 <= JsonParse(localStorage'[key]).currentQuestionIndex
               /\ JsonParse(localStorage'[key]).currentQuestionIndex <
                      Len(JsonParse(localStorage'[key]).questions)]_vars

\* no element of xs occurs twice
NoRepetition(xs) == \A i, j \in DOMAIN xs : xs[i] = xs[j] => i = j

\* the selection stored for the current question
CurrentSelection(self) ==
    IF (self.currentQuestionIndex + 1) \in DOMAIN self.userAnswers
       /\ IsArray(self.userAnswers[self.currentQuestionIndex + 1])
    THEN self.userAnswers[self.currentQuestionIndex + 1].items
    ELSE <<>>

\* C39: whatever options of a multi-answer question are checked and
\* unchecked, no stored selection holds a key twice, so that its length is
\* the size of a set; checking a key that is selected leaves the answers
\* as they are, and unchecking a key leaves a selection without it.
C39_NoKeyTwice ==
    /\ \A k \in DOMAIN app.userAnswers :
           IsArray(app.userAnswers[k]) =>
               /\ NoRepetition(app.userAnswers[k].items)
               /\ Cardinality(Range(app.userAnswers[k].items)) = Len(app.userAnswers[k].items)
    /\ InProgress =>
           \A i \in DOMAIN dom.optionInputs :
               dom.optionInputs[i].type = "checkbox" =>
                   LET value == dom.optionInputs[i].value IN
                   /\ Includes(CurrentSelection(app), value) =>
                          selectMultiOption(World, value, TRUE).app.userAnswers = app.userAnswers
                   /\ ~Includes(CurrentSelection(selectMultiOption(World, value, FALSE).app), value)
                   /\ \A other \in Range(CurrentSelection(app)) \ {value} :
                          Includes(CurrentSelection(selectMultiOption(World, value, FALSE).app), other)

\* both options of a multi-answer question are selected
C39_Witness ==
    /\ InProgress
    /\ Len(CurrentSelection(app)) = 2
    /\ \A i \in DOMAIN dom.optionInputs :
           /\ dom.optionInputs[i].type = "checkbox"
           /\ Includes(CurrentSelection(app), dom.optionInputs[i].value)

\* C40: no step of an attempt (start, resume, restart, answer, navigation,
\* tick, submit, retry, reset) changes the banks that were loaded: the
\* questions of every bank, their order and the order of their options
\* stay as loadQuizzes registered them.
C40_BanksUnmodified ==
    [][/\ app'.quizzes = app.quizzes
       /\ app'.quizzes = loadQuizzes(QuizApp, server).quizzes]_vars

\* an attempt is in progress whose questions and options are in another
\* order than those of the bank
C40_Witness ==
    /\ InProgress
    /\ Len(app.currentQuestions) = 2
    /\ app.currentQuestions[1].question_text # app.quizzes[app.currentQuiz][1].question_text
    /\ app.currentQuestions[2].question_option # app.quizzes[app.currentQuiz][1].question_option
    /\ DOMAIN app.userAnswers # {}

=============================================================================
